---- MODULE Spec2Model ----
(***************************************************************************)
(* NeuroWings: morphometric index and breed classification engine.         *)
(*                                                                         *)
(* Number representation.  The program computes in IEEE doubles; the model *)
(* computes in exact integer / rational arithmetic:                        *)
(*   - landmark coordinates are integers (pixels);                         *)
(*   - distances and the indices CI, DsA, HI are fixed-point integers in   *)
(*     units of 10^-3 (DsA: 10^-3 degree);                                 *)
(*   - the projection point, the slopes K2, K3 and the statistics of the   *)
(*     colony sample are exact rationals kept as numerator/denominator.    *)
(* The thresholds 1e-12 and 1e-10 of the source separate "zero" from       *)
(* "nonzero" on the integer grids used here, and the sentinel slope 1e10   *)
(* is kept symbolically (denominator 0) with quotients taken to leading    *)
(* order, which is exact at the 10^-3 degree resolution.                   *)
(***************************************************************************)
EXTENDS Integers, Sequences, FiniteSets, TLC

VARIABLES
    points,     \* the landmark list being assembled (input of calculate_indices / Wing.points)
    result,     \* outcome of the last per-wing operation applied to `points`
    wing_idx,   \* the index triple [CI, DsA, HI] handed to identify_breed
    ident,      \* what identify_breed returned for wing_idx
    values,     \* per-wing values of one index handed to calculate_hybridization_score
    breed_name, \* the dominant breed handed to the colony-level functions
    index_type, \* "CI", "DsA" or "HI"
    hyb,        \* what calculate_hybridization_score returned
    colony,     \* statistics of one image's wing sample, as the scoring code reads them
    scored,     \* analysis results stored (and sub-scores shown) by the last scoring path
    batch_results, \* BatchResultsWidget.batch_results: the row shown for the image
    family,     \* breed name and the three value lists handed to calculate_breed_probability
    probability, \* what calculate_breed_probability returned
    validity,   \* the (name, flag) entries of an index_valid dict, in insertion order
    problem_points, \* what get_problem_points returned for index_valid
    current_image,  \* MainWindow.current_image: the ImageData being edited
    adding_points,  \* MainWindow.adding_points: clicks of the wing being digitised
    edit_mode,      \* MainWindow.edit_mode
    images,         \* MainWindow.images: path -> ImageData of the opened folder (the entry of
                    \* the selected path is the object current_image and is read through it)
    current_path,   \* path of file_list.currentItem()
    temp_add_items  \* MainWindow.temp_add_items: the scene items of the pending clicks,
                    \* each "live" or "deleted" (destroyed with the scene's contents)

wingVars  == <<points, result>>
breedVars == <<wing_idx, ident>>
hybVars   == <<values, breed_name, index_type, hyb>>
scoreVars == <<colony, scored, batch_results>>
probVars  == <<family, probability>>
problemVars == <<validity, problem_points>>
editorVars == <<current_image, adding_points, edit_mode>>
folderVars == <<images, current_path, temp_add_items>>
vars == <<points, result, wing_idx, ident, values, breed_name, index_type, hyb,
          colony, scored, batch_results, family, probability, validity, problem_points,
          current_image, adding_points, edit_mode, images, current_path, temp_add_items>>

\* What the operations of one group leave alone: every other group.
restWing    == <<breedVars, hybVars, scoreVars, probVars, problemVars, editorVars, folderVars>>
restBreed   == <<wingVars, hybVars, scoreVars, probVars, problemVars, editorVars, folderVars>>
restHyb     == <<wingVars, breedVars, scoreVars, probVars, problemVars, editorVars, folderVars>>
restScore   == <<wingVars, breedVars, hybVars, probVars, problemVars, editorVars, folderVars>>
restProb    == <<wingVars, breedVars, hybVars, scoreVars, problemVars, editorVars, folderVars>>
restProblem == <<wingVars, breedVars, hybVars, scoreVars, probVars, editorVars, folderVars>>
restEditor  == <<wingVars, breedVars, hybVars, scoreVars, probVars, problemVars, folderVars>>
restFolder  == <<wingVars, breedVars, hybVars, scoreVars, probVars, problemVars>>

----------------------------------------------------------------------------
(* Integer helpers *)

\* The one element of a singleton.  A local variable of the source is written
\* Only({body : x \in {value}}): the value is computed once and the body reads it.
Only(S) == CHOOSE r \in S : TRUE

Abs(x) == IF x < 0 THEN -x ELSE x
Min2(a, b) == IF a <= b THEN a ELSE b
Max2(a, b) == IF a >= b THEN a ELSE b

RECURSIVE GCD(_, _)
GCD(a, b) == IF b = 0 THEN a ELSE GCD(b, a % b)

RECURSIVE ISqrtB(_, _, _)
ISqrtB(n, lo, hi) ==
    IF hi - lo <= 1 THEN lo
    ELSE LET mid == (lo + hi) \div 2
         IN  IF mid * mid <= n THEN ISqrtB(n, mid, hi) ELSE ISqrtB(n, lo, mid)

\* floor(sqrt(n)) for 0 <= n < 2^31
ISqrt(n) == ISqrtB(n, 0, 46341)

\* arctan(2^-i) in units of 10^-6 degree, i = 0..21
AtanTable == <<45000000, 26565051, 14036243, 7125016, 3576334, 1789911,
               895174, 447614, 223811, 111906, 55953, 27976, 13988, 6994,
               3497, 1749, 874, 437, 219, 109, 55, 27>>

RECURSIVE Cordic(_, _, _, _)
Cordic(x, y, z, i) ==
    IF i >= Len(AtanTable) THEN z
    ELSE LET s == 2 ^ i
         IN  IF y > 0
             THEN Cordic(x + (y \div s), y - (x \div s), z + AtanTable[i + 1], i + 1)
             ELSE Cordic(x - (y \div s), y + (x \div s), z - AtanTable[i + 1], i + 1)

\* degrees(arctan(n / d)) in units of 10^-3 degree, d # 0   (np.degrees(np.arctan(.)))
AtanMilliDeg(n, d) ==
    IF n = 0 THEN 0
    ELSE LET m   == Max2(Abs(n), Abs(d))
             f   == 268435456 \div m
             z   == Cordic(Abs(d) * f, Abs(n) * f, 0, 0)
             mag == (z + 500) \div 1000
         IN  IF (n > 0) = (d > 0) THEN mag ELSE -mag

----------------------------------------------------------------------------
(* Points.  A list element is a coordinate pair, None, or a malformed      *)
(* 1-tuple (x,) with a missing coordinate.                                 *)

Pt(x, y)  == [k |-> "pt", x |-> x, y |-> y]
None      == [k |-> "none", x |-> 0, y |-> 0]
Short(x)  == [k |-> "short", x |-> x, y |-> 0]

\* dist: Euclidean distance in units of 10^-3; 0 for None (guard) and for a
\* malformed point (IndexError caught)
dist(p1, p2) ==
    IF p1.k = "none" \/ p2.k = "none" THEN 0
    ELSE IF p1.k = "short" \/ p2.k = "short" THEN 0
    ELSE ISqrt(1000000 * ((p2.x - p1.x) * (p2.x - p1.x) + (p2.y - p1.y) * (p2.y - p1.y)))

\* project_point_to_line: the projection as exact rational point (xn/d, yn/d);
\* (0,0) for None, for a malformed point (ValueError caught) and for a = b
project_point_to_line(p, a, b) ==
    IF p.k = "none" \/ a.k = "none" \/ b.k = "none" THEN [xn |-> 0, yn |-> 0, d |-> 1]
    ELSE IF p.k = "short" \/ a.k = "short" \/ b.k = "short" THEN [xn |-> 0, yn |-> 0, d |-> 1]
    ELSE LET vx == b.x - a.x
             vy == b.y - a.y
             vv == vx * vx + vy * vy
             tn == (p.x - a.x) * vx + (p.y - a.y) * vy
         IN  IF vv = 0 THEN [xn |-> 0, yn |-> 0, d |-> 1]
             ELSE [xn |-> a.x * vv + tn * vx, yn |-> a.y * vv + tn * vy, d |-> vv]

\* slope dy/dx as reduced fraction n/d with d > 0; d = 0 is the vertical-line
\* sentinel n * 1e10 with n = +1 if dy > 0 else -1
Slope(dy, dx) ==
    IF dx = 0 THEN [n |-> IF dy > 0 THEN 1 ELSE -1, d |-> 0]
    ELSE LET g == GCD(Abs(dy), Abs(dx))
             s == IF dx > 0 THEN 1 ELSE -1
         IN  [n |-> s * (dy \div g), d |-> s * (dx \div g)]

\* DsA in 10^-3 degree from the two slopes:
\*   denominator = 1 + K3*K2; |denominator| < 1e-10 -> +-90; else -deg(atan((K2-K3)/denominator))
DsaFromSlopes(K2, K3) ==
    LET a == K2.n
        b == K2.d
        c == K3.n
        e == K3.d
    IN  IF b # 0 /\ e # 0
        THEN LET num == a * e - c * b
                 den == b * e + c * a
             IN  IF den = 0 THEN (IF num > 0 THEN 90000 ELSE -90000)
                 ELSE -AtanMilliDeg(num, den)
        ELSE IF b = 0 /\ e # 0
        THEN (IF c # 0 THEN -AtanMilliDeg(e, c) ELSE -(a * 90000))
        ELSE IF b # 0 /\ e = 0
        THEN (IF a # 0 THEN -AtanMilliDeg(-b, a) ELSE c * 90000)
        ELSE 0

\* calculate_dsa_excel: [raised, DsA, proj]; `arg` is [isseq, items]
calculate_dsa_excel(arg) ==
    IF ~arg.isseq \/ Len(arg.items) # 8
    THEN [raised |-> "no", DsA |-> 0, proj |-> [xn |-> 0, yn |-> 0, d |-> 1]]
    ELSE LET p1 == arg.items[1]
             p2 == arg.items[2]
             p3 == arg.items[3]
             p8 == arg.items[8]
             proj == project_point_to_line(p3, p1, p2)
         IN  IF p3.k = "none" THEN [raised |-> "TypeError", DsA |-> 0, proj |-> proj]
             ELSE IF p3.k = "short" THEN [raised |-> "IndexError", DsA |-> 0, proj |-> proj]
             ELSE IF p8.k = "none" THEN [raised |-> "TypeError", DsA |-> 0, proj |-> proj]
             ELSE IF p8.k = "short" THEN [raised |-> "IndexError", DsA |-> 0, proj |-> proj]
             ELSE LET dx_p3 == proj.xn - p3.x * proj.d
                      dy_p3 == proj.yn - p3.y * proj.d
                      dx_p8 == proj.xn - p8.x * proj.d
                      dy_p8 == proj.yn - p8.y * proj.d
                      K2 == Slope(dy_p3, dx_p3)
                      K3 == Slope(dy_p8, dx_p8)
                  IN  [raised |-> "no", DsA |-> DsaFromSlopes(K2, K3), proj |-> proj]

\* calculate_indices with the degenerate P6 = P7 case handled by an early
\* return of the neutral result, so that HI and DsA are no longer computed
calculate_indices_EarlyReturn(arg) ==
    IF ~arg.isseq \/ Len(arg.items) # 8
    THEN [raised |-> "no", CI |-> 0, DsA |-> 0, HI |-> 0]
    ELSE LET d67 == dist(arg.items[6], arg.items[7])
             d34 == dist(arg.items[3], arg.items[4])
             dsa == calculate_dsa_excel(arg)
         IN  IF d67 = 0 THEN [raised |-> "no", CI |-> 0, DsA |-> 0, HI |-> 0]
             ELSE IF dsa.raised # "no"
             THEN [raised |-> dsa.raised, CI |-> 0, DsA |-> 0, HI |-> 0]
             ELSE [raised |-> "no",
                   CI |-> (1000 * dist(arg.items[5], arg.items[6])) \div d67,
                   DsA |-> dsa.DsA,
                   HI |-> IF d34 > 0 THEN (1000 * dist(arg.items[5], arg.items[7])) \div d34 ELSE 0]

\* calculate_indices: [raised, CI, DsA, HI]
calculate_indices(arg) ==
    IF ~arg.isseq \/ Len(arg.items) # 8
    THEN [raised |-> "no", CI |-> 0, DsA |-> 0, HI |-> 0]
    ELSE LET p3 == arg.items[3]
             p4 == arg.items[4]
             p5 == arg.items[5]
             p6 == arg.items[6]
             p7 == arg.items[7]
             d56 == dist(p5, p6)
             d67 == dist(p6, p7)
             ci  == IF d67 > 0 THEN (1000 * d56) \div d67 ELSE 0
             d57 == dist(p5, p7)
             d34 == dist(p3, p4)
             hi  == IF d34 > 0 THEN (1000 * d57) \div d34 ELSE 0
             dsa == calculate_dsa_excel(arg)
         IN  IF dsa.raised # "no"
             THEN [raised |-> dsa.raised, CI |-> 0, DsA |-> 0, HI |-> 0]
             ELSE [raised |-> "no", CI |-> ci, DsA |-> dsa.DsA, HI |-> hi]

----------------------------------------------------------------------------
(* Reference configuration (core/constants.py).  Values in units of 10^-3. *)
(* Mellifera is the range quoted by the specification; the other three     *)
(* breeds stand for the "analogous but distinct" ranges of the same table. *)

BreedOrder == <<"Mellifera", "Caucasica", "Ligustica", "Carnica">>

BREEDS ==
    [b \in {BreedOrder[i] : i \in 1..Len(BreedOrder)} |->
        CASE b = "Mellifera" -> [CI |-> <<760, 2160>>,  DsA |-> <<-15310, 0>>,  HI |-> <<616, 923>>]
          [] b = "Caucasica" -> [CI |-> <<1500, 2800>>, DsA |-> <<-2000, 6000>>, HI |-> <<700, 1000>>]
          [] b = "Ligustica" -> [CI |-> <<2000, 2700>>, DsA |-> <<0, 5000>>,     HI |-> <<750, 1050>>]
          [] OTHER           -> [CI |-> <<2400, 3000>>, DsA |-> <<1000, 8000>>,  HI |-> <<800, 1100>>]]

BREED_RANGES == BREEDS

IndexNames == {"CI", "DsA", "HI"}

\* index name -> landmark indices (0-based) that enter its formula
INDEX_POINTS ==
    [k \in IndexNames |->
        CASE k = "CI"  -> {4, 5, 6}
          [] k = "HI"  -> {2, 3, 4, 6}
          [] OTHER     -> {0, 1, 2, 7}]

----------------------------------------------------------------------------
(* Per-wing classification *)

\* lo <= v <= hi with a swapped upper bound test (v < hi): the bound is excluded
InClosedRange_OpenAbove(v, r) == r[1] <= v /\ v < r[2]

\* ranges[k][0] <= v <= ranges[k][1]
InClosedRange(v, r) == r[1] <= v /\ v <= r[2]

\* loop body that marks an index valid only when the whole breed matches
IdentifyStep_ValidOnlyOnMatch(acc, name, CI, DsA, HI) ==
    LET ranges == BREEDS[name]
        all_ok == /\ InClosedRange(CI, ranges.CI)
                  /\ InClosedRange(DsA, ranges.DsA)
                  /\ InClosedRange(HI, ranges.HI)
    IN  [breeds |-> IF all_ok THEN Append(acc.breeds, name) ELSE acc.breeds,
         index_valid |-> [CI  |-> acc.index_valid.CI \/ all_ok,
                          DsA |-> acc.index_valid.DsA \/ all_ok,
                          HI  |-> acc.index_valid.HI \/ all_ok]]

\* one iteration of the loop of identify_breed over BREEDS.items()
IdentifyStep(acc, name, CI, DsA, HI) ==
    LET ranges == BREEDS[name]
        ci_ok  == InClosedRange(CI, ranges.CI)
        dsa_ok == InClosedRange(DsA, ranges.DsA)
        hi_ok  == InClosedRange(HI, ranges.HI)
    IN  [breeds |-> IF ci_ok /\ dsa_ok /\ hi_ok THEN Append(acc.breeds, name) ELSE acc.breeds,
         index_valid |-> [CI  |-> acc.index_valid.CI \/ ci_ok,
                          DsA |-> acc.index_valid.DsA \/ dsa_ok,
                          HI  |-> acc.index_valid.HI \/ hi_ok]]

RECURSIVE IdentifyLoop(_, _, _, _, _)
IdentifyLoop(CI, DsA, HI, i, acc) ==
    IF i > Len(BreedOrder) THEN acc
    ELSE IdentifyLoop(CI, DsA, HI, i + 1, IdentifyStep(acc, BreedOrder[i], CI, DsA, HI))

\* identify_breed: (breeds_found, index_valid)
identify_breed(CI, DsA, HI) ==
    IdentifyLoop(CI, DsA, HI, 1,
                 [breeds |-> <<>>, index_valid |-> [CI |-> FALSE, DsA |-> FALSE, HI |-> FALSE]])

\* index_valid.items() of the dict identify_breed builds: insertion order CI, DsA, HI
IndexOrder == <<"CI", "DsA", "HI">>
items(d) == [i \in 1..Len(IndexOrder) |-> [name |-> IndexOrder[i], is_valid |-> d[IndexOrder[i]]]]

\* One pass of the loop of get_problem_points over an entry (name, flag) of the dict.
ProblemPointsStep_IgnoresFlag(acc, index_name, is_valid) ==
    IF index_name \in DOMAIN INDEX_POINTS
    THEN acc \cup INDEX_POINTS[index_name]
    ELSE acc

ProblemPointsStep(acc, index_name, is_valid) ==
    IF ~is_valid /\ index_name \in DOMAIN INDEX_POINTS
    THEN acc \cup INDEX_POINTS[index_name]
    ELSE acc

RECURSIVE ProblemPointsLoop(_, _, _)
ProblemPointsLoop(entries, i, acc) ==
    IF i > Len(entries) THEN acc
    ELSE ProblemPointsLoop(entries, i + 1,
                           ProblemPointsStep(acc, entries[i].name, entries[i].is_valid))

\* list(a_set) for a set of landmark numbers 0..7: CPython walks the hash table
\* slot by slot and a small int hashes to itself, so the list is ascending.
RECURSIVE ListOfSet(_)
ListOfSet(S) ==
    IF S = {} THEN <<>>
    ELSE LET m == CHOOSE x \in S : \A y \in S : x <= y
         IN  <<m>> \o ListOfSet(S \ {m})

\* get_problem_points: landmarks of every index whose flag is False, as a list.
\* index_valid is the dict as its sequence of (name, flag) entries.
get_problem_points(index_valid) ==
    ListOfSet(ProblemPointsLoop(index_valid, 1, {}))

----------------------------------------------------------------------------
(* Colony level: hybridization score.  Values are in units of 10^-3; bin   *)
(* edges min + i*(max-min)/30 are compared exactly, scaled by 30.          *)

RECURSIVE SumSeq(_)
SumSeq(sq) == IF sq = <<>> THEN 0 ELSE Head(sq) + SumSeq(Tail(sq))

MinSet(S) == CHOOSE m \in S : \A x \in S : m <= x
MaxSet(S) == CHOOSE m \in S : \A x \in S : m >= x

\* np.min / np.max of a list
MinSeq(sq) == MinSet({sq[i] : i \in 1..Len(sq)})
MaxSeq(sq) == MaxSet({sq[i] : i \in 1..Len(sq)})

\* [float(v) for v in values if v is not None and float(v) != 0.0]
NonZero(vals) == SelectSeq(vals, LAMBDA v : v # 0)

num_bins == 30

\* score table with the two conditions of the first rule joined by "and"
ScoreFromRanks_BothNeeded(rank2_count, rank1_count, total_wings) ==
    IF 100 * rank2_count > 2 * total_wings /\ 100 * rank1_count > 15 * total_wings THEN 0
    ELSE IF 100 * rank2_count > 1 * total_wings \/ 200 * rank1_count > 15 * total_wings THEN 1
    ELSE IF rank2_count > 0 \/ rank1_count > 0 THEN 2
    ELSE 3

\* pct_rank2 = 100*rank2_count/total_wings, pct_rank1 likewise, then the table
ScoreFromRanks(rank2_count, rank1_count, total_wings) ==
    IF 100 * rank2_count > 2 * total_wings \/ 100 * rank1_count > 15 * total_wings THEN 0
    ELSE IF 100 * rank2_count > 1 * total_wings \/ 200 * rank1_count > 15 * total_wings THEN 1
    ELSE IF rank2_count > 0 \/ rank1_count > 0 THEN 2
    ELSE 3

\* rank-2 test with the limit moved by one bin
IsRank2_FartherThanFour(distance_from_boundary) == distance_from_boundary > 4

\* distance_from_boundary > 3: rank 2, otherwise rank 1
IsRank2(distance_from_boundary) == distance_from_boundary > 3

\* the test for identical values never succeeds
AllSame_Never(min_val, max_val) == FALSE

\* abs(max_val - min_val) < 1e-10
AllSame(min_val, max_val) == Abs(max_val - min_val) = 0

\* the share of wings beyond the boundary tested from the wrong side
percent_beyond_score_Below(n_beyond, total_wings) ==
    IF 100 * n_beyond < 2 * total_wings THEN 0
    ELSE IF 100 * n_beyond < 1 * total_wings THEN 1
    ELSE 2

\* boundary_bin == -1: pct_beyond = len(beyond_boundary) / total_wings * 100,
\* more than 2 gives 0, more than 1 gives 1, anything else 2
percent_beyond_score(n_beyond, total_wings) ==
    IF 100 * n_beyond > 2 * total_wings THEN 0
    ELSE IF 100 * n_beyond > 1 * total_wings THEN 1
    ELSE 2

\* the mean is exactly as far from breed_min as from breed_max.  mean_val and
\* both distances are binary floating-point numbers: at such a sample the
\* comparison below is decided by their rounding, which depends on the
\* bounds and on the order in which np.mean adds the values.
MeanTie(sum, total_wings, breed_min, breed_max) ==
    Abs(sum - total_wings * breed_min) = Abs(sum - total_wings * breed_max)

\* the comparison with the less-than sign turned round
closer_to_min_Farther(sum, total_wings, breed_min, breed_max, tie_min) ==
    \/ Abs(sum - total_wings * breed_min) > Abs(sum - total_wings * breed_max)
    \/ MeanTie(sum, total_wings, breed_min, breed_max) /\ tie_min

\* abs(mean_val - breed_min) < abs(mean_val - breed_max), times total_wings;
\* tie_min is what the rounding makes of an exact tie
closer_to_min(sum, total_wings, breed_min, breed_max, tie_min) ==
    \/ Abs(sum - total_wings * breed_min) < Abs(sum - total_wings * breed_max)
    \/ MeanTie(sum, total_wings, breed_min, breed_max) /\ tie_min

\* values outside the breed's interval on either side
beyond_values_EitherSide(valid_values, lower, breed_min, breed_max) ==
    SelectSeq(valid_values, LAMBDA v : v < breed_min \/ v > breed_max)

\* [v for v in valid_values if v < critical_boundary] on the lower side,
\* [v for v in valid_values if v > critical_boundary] on the upper side
beyond_values(valid_values, lower, breed_min, breed_max) ==
    IF lower THEN SelectSeq(valid_values, LAMBDA v : v < breed_min)
    ELSE SelectSeq(valid_values, LAMBDA v : v > breed_max)

\* the value returned before any boundary is looked at
EarlyReturn(path, score) ==
    [path |-> path, score |-> score, critical_boundary |-> 0, beyond |-> 0,
     boundary_bin |-> -1, rank2_count |-> 0, rank1_count |-> 0]

\* calculate_hybridization_score with its local quantities kept: the
\* return statement taken (path), the score, the critical boundary, the
\* number of values beyond it, the boundary bin and both rank counts
hybridization_run(vals, breed, itype, tie_min) ==
    IF Len(vals) = 0 \/ breed \notin DOMAIN BREED_RANGES THEN EarlyReturn("empty", 0)
    ELSE
    LET breed_min    == BREED_RANGES[breed][itype][1]
        breed_max    == BREED_RANGES[breed][itype][2]
        valid_values == NonZero(vals)
        total_wings  == Len(valid_values)
    IN
    IF total_wings = 0 THEN EarlyReturn("empty", 0)
    ELSE
    LET min_val == MinSeq(valid_values)
        max_val == MaxSeq(valid_values)
    IN
    IF AllSame(min_val, max_val) THEN EarlyReturn("same", 3)
    ELSE
    LET \* 30 * bin_start of bin i (bin_end of bin i is the start of bin i + 1)
        Edge(i)  == num_bins * min_val + i * (max_val - min_val)
        InBin(v, i) ==
            IF i = num_bins - 1
            THEN Edge(i) <= num_bins * v /\ num_bins * v <= Edge(i + 1)
            ELSE Edge(i) <= num_bins * v /\ num_bins * v < Edge(i + 1)
        bin_of == [j \in 1..total_wings |->
                      LET c == {i \in 0..(num_bins - 1) : InBin(valid_values[j], i)}
                      IN  IF c = {} THEN -1 ELSE MinSet(c)]
        bin_counts == [i \in 0..(num_bins - 1) |->
                          Cardinality({j \in 1..total_wings : bin_of[j] = i})]
        sum == SumSeq(valid_values)
        lower == closer_to_min(sum, total_wings, breed_min, breed_max, tie_min)
        critical_boundary == IF lower THEN breed_min ELSE breed_max
        beyond_boundary == beyond_values(valid_values, lower, breed_min, breed_max)
    IN
    IF Len(beyond_boundary) = 0
    THEN [EarlyReturn("none_beyond", 3) EXCEPT !.critical_boundary = critical_boundary]
    ELSE
    LET bc == {i \in 0..(num_bins - 1) :
                  Edge(i) <= num_bins * critical_boundary /\ num_bins * critical_boundary <= Edge(i + 1)}
        boundary_bin == IF bc = {} THEN -1 ELSE MinSet(bc)
    IN
    IF boundary_bin = -1
    THEN [path |-> "percent", score |-> percent_beyond_score(Len(beyond_boundary), total_wings),
          critical_boundary |-> critical_boundary, beyond |-> Len(beyond_boundary),
          boundary_bin |-> -1, rank2_count |-> 0, rank1_count |-> 0]
    ELSE
    LET outward == IF critical_boundary = breed_min
                   THEN 0..(boundary_bin - 1)
                   ELSE (boundary_bin + 1)..(num_bins - 1)
        rank2_bins == {i \in outward : IsRank2(Abs(i - boundary_bin))}
        rank1_bins == {i \in outward : ~IsRank2(Abs(i - boundary_bin))}
        rank2_count == Cardinality({j \in 1..total_wings : bin_of[j] \in rank2_bins})
        rank1_count == Cardinality({j \in 1..total_wings : bin_of[j] \in rank1_bins})
    IN  [path |-> "ranks", score |-> ScoreFromRanks(rank2_count, rank1_count, total_wings),
         critical_boundary |-> critical_boundary, beyond |-> Len(beyond_boundary),
         boundary_bin |-> boundary_bin, rank2_count |-> rank2_count, rank1_count |-> rank1_count]

\* every way the function can run on the sample: one, unless the mean is
\* exactly halfway between the breed's bounds
hybridization_runs(vals, breed, itype) ==
    LET valid_values == NonZero(vals)
        tie == /\ breed \in DOMAIN BREED_RANGES
               /\ Len(valid_values) > 0
               /\ MeanTie(SumSeq(valid_values), Len(valid_values),
                          BREED_RANGES[breed][itype][1], BREED_RANGES[breed][itype][2])
    IN  {hybridization_run(vals, breed, itype, tie_min) :
            tie_min \in IF tie THEN BOOLEAN ELSE {FALSE}}

\* the score on a sample whose mean is not halfway between the bounds
calculate_hybridization_score(vals, breed, itype) ==
    hybridization_run(vals, breed, itype, FALSE).score

----------------------------------------------------------------------------
(* Wing (core/data_models.py) *)

\* Wing.analysis = None
NoneAnalysis == [is_none |-> TRUE]

\* Wing(points=...) with the dataclass defaults
NewWing(pts) ==
    [points |-> pts, analysis |-> NoneAnalysis,
     points_yolo |-> <<>>, points_stage1 |-> <<>>, points_stage2 |-> <<>>,
     point_sources |-> [i \in 1..8 |-> "stage2"]]

\* Wing.get_active_points
get_active_points(wing) ==
    [i \in 1..Min2(8, Len(wing.points)) |->
        LET source == IF i <= Len(wing.point_sources) THEN wing.point_sources[i] ELSE "stage2"
        IN  IF source = "yolo" /\ i <= Len(wing.points_yolo) THEN wing.points_yolo[i]
            ELSE IF source = "stage1" /\ i <= Len(wing.points_stage1) THEN wing.points_stage1[i]
            ELSE IF source = "stage2" /\ i <= Len(wing.points_stage2) THEN wing.points_stage2[i]
            ELSE wing.points[i]]

\* WingAnalysis()
NeutralAnalysis ==
    [CI |-> 0, DsA |-> 0, HI |-> 0, breeds |-> <<>>, index_valid |-> [k \in {} |-> FALSE],
     problem_points |-> <<>>, is_identified |-> FALSE, projection |-> [xn |-> 0, yn |-> 0, d |-> 1]]

\* Wing.analyze calling a wing identified only when several breeds match
WingAnalyze_SeveralBreeds(wing, image_height) ==
    LET active == get_active_points(wing)
    IN  IF Len(active) # 8 THEN NeutralAnalysis
        ELSE LET pts == IF image_height > 0
                        THEN [i \in 1..8 |-> Pt(active[i].x, image_height - active[i].y)]
                        ELSE active
                 arg == [isseq |-> TRUE, items |-> pts]
             IN  Only(UNION {
                    {[CI |-> indices.CI, DsA |-> indices.DsA, HI |-> indices.HI,
                      breeds |-> found.breeds,
                      index_valid |-> found.index_valid,
                      problem_points |-> get_problem_points(items(found.index_valid)),
                      is_identified |-> Len(found.breeds) > 1,
                      projection |-> calculate_dsa_excel(arg).proj] :
                        found \in {identify_breed(indices.CI, indices.DsA, indices.HI)}} :
                    indices \in {calculate_indices(arg)}})

\* Wing.analyze(image_height); image_height = 0 stands for None / not positive
WingAnalyze(wing, image_height) ==
    LET active == get_active_points(wing)
    IN  IF Len(active) # 8 THEN NeutralAnalysis
        ELSE LET pts == IF image_height > 0
                        THEN [i \in 1..8 |-> Pt(active[i].x, image_height - active[i].y)]
                        ELSE active
                 arg == [isseq |-> TRUE, items |-> pts]
             IN  Only(UNION {
                    {[CI |-> indices.CI, DsA |-> indices.DsA, HI |-> indices.HI,
                      breeds |-> found.breeds,
                      index_valid |-> found.index_valid,
                      problem_points |-> get_problem_points(items(found.index_valid)),
                      is_identified |-> Len(found.breeds) > 0,
                      projection |-> calculate_dsa_excel(arg).proj] :
                        found \in {identify_breed(indices.CI, indices.DsA, indices.HI)}} :
                    indices \in {calculate_indices(arg)}})

----------------------------------------------------------------------------
(* Per-wing specification: a landmark list is assembled point by point and *)
(* calculate_indices / calculate_dsa_excel are applied to it.              *)

MaxPoints == 9

\* candidate landmarks per position (screen coordinates)
Cand(i) ==
    CASE i = 1 -> {Pt(0, 3), None}
      [] i = 2 -> {Pt(32, 5), Pt(32, 3), Pt(0, 3), None}
      [] i = 3 -> {Pt(13, 5), None, Short(13)}
      [] i = 4 -> {Pt(4, 5), Pt(13, 5), None}
      [] i = 5 -> {Pt(13, 11), None, Short(13)}
      [] i = 6 -> {Pt(17, 14), None}
      [] i = 7 -> {Pt(20, 14), Pt(17, 14), None}
      [] i = 8 -> {Pt(12, 20), Pt(0, 20), None, Short(12)}
      [] OTHER -> {Pt(1, 1)}

NoResult == [op |-> "none", isseq |-> TRUE, height |-> 0, out |-> <<>>]

NoIdent == [breeds |-> <<>>, index_valid |-> [k \in {} |-> FALSE]]

WingIdle  == points = <<>> /\ result = NoResult
BreedIdle == wing_idx = [CI |-> 0, DsA |-> 0, HI |-> 0] /\ ident = NoIdent

NoScore == [done |-> FALSE, score |-> 0]

HybIdle == values = <<>> /\ breed_name = "Mellifera" /\ index_type = "CI" /\ hyb = NoScore

NoColony == [total |-> 0, identified |-> 0, prob |-> [num |-> 0, den |-> 1],
             cv_ci |-> 0, cv_hi |-> 0, mean_ci |-> 0, mean_dsa |-> 0, mean_hi |-> 0,
             ci_hyb |-> 0, dsa_hyb |-> 0, hi_hyb |-> 0]

NoResults == [op |-> "none", total |-> 0, identified |-> 0,
              breed_match_pct |-> [num |-> 0, den |-> 1], breed_score |-> 0,
              ci_score |-> 0, hi_score |-> 0, score |-> 0]

\* self.batch_results = {} before the image has a row
NoRow == [shown |-> FALSE]

ScoreIdle == colony = NoColony /\ scored = NoResults /\ batch_results = NoRow

NoFamily == [breed |-> "Mellifera", ci |-> <<>>, dsa |-> <<>>, hi |-> <<>>]

NoProbability == [op |-> "none"]

ProbIdle == family = NoFamily /\ probability = NoProbability
NoProblemPoints == [op |-> "none"]
ProblemIdle == validity = <<>> /\ problem_points = NoProblemPoints

\* height of the image on screen (pixels), as read from its pixmap
ImageHeight == 20

\* analysis_results = {} (dataclass default of ImageData)
NoStored == [stored |-> FALSE]

\* ImageData(path) after its size has been read: no wings, no stored results
NewImage == [wings |-> <<>>, height |-> ImageHeight, analysis_results |-> NoStored]

\* the main window after construction with an image selected
EditorIdle == current_image = NewImage /\ adding_points = <<>> /\ edit_mode = "VIEW"

\* no folder opened: MainWindow.images = {}
FolderIdle == images = <<>> /\ current_path = "" /\ temp_add_items = <<>>

RestWingIdle    == BreedIdle /\ HybIdle /\ ScoreIdle /\ ProbIdle /\ ProblemIdle /\ EditorIdle /\ FolderIdle
RestBreedIdle   == WingIdle /\ HybIdle /\ ScoreIdle /\ ProbIdle /\ ProblemIdle /\ EditorIdle /\ FolderIdle
RestHybIdle     == WingIdle /\ BreedIdle /\ ScoreIdle /\ ProbIdle /\ ProblemIdle /\ EditorIdle /\ FolderIdle
RestScoreIdle   == WingIdle /\ BreedIdle /\ HybIdle /\ ProbIdle /\ ProblemIdle /\ EditorIdle /\ FolderIdle
RestProbIdle    == WingIdle /\ BreedIdle /\ HybIdle /\ ScoreIdle /\ ProblemIdle /\ EditorIdle /\ FolderIdle
RestProblemIdle == WingIdle /\ BreedIdle /\ HybIdle /\ ScoreIdle /\ ProbIdle /\ EditorIdle /\ FolderIdle
RestEditorIdle  == WingIdle /\ BreedIdle /\ HybIdle /\ ScoreIdle /\ ProbIdle /\ ProblemIdle /\ FolderIdle
RestFolderIdle  == WingIdle /\ BreedIdle /\ HybIdle /\ ScoreIdle /\ ProbIdle /\ ProblemIdle

Init ==
    /\ points = <<>>
    /\ result = NoResult
    /\ RestWingIdle

AppendPoint ==
    /\ result.op = "none"
    /\ Len(points) < MaxPoints
    /\ \E p \in Cand(Len(points) + 1) : points' = Append(points, p)
    /\ UNCHANGED <<result, restWing>>

CalculateIndices ==
    /\ result.op = "none"
    /\ \E isseq \in BOOLEAN :
          result' = [op |-> "calculate_indices", isseq |-> isseq, height |-> 0,
                     out |-> calculate_indices([isseq |-> isseq, items |-> points])]
    /\ UNCHANGED <<points, restWing>>

CalculateDsaExcel ==
    /\ result.op = "none"
    /\ \E isseq \in BOOLEAN :
          result' = [op |-> "calculate_dsa_excel", isseq |-> isseq, height |-> 0,
                     out |-> calculate_dsa_excel([isseq |-> isseq, items |-> points])]
    /\ UNCHANGED <<points, restWing>>

\* image heights of the analysed image (0: height unknown, no Y conversion)
Heights == {0, 20}

\* Wing(points=[WingPoint...]).analyze(image_height): every element is a WingPoint
WingAnalyzeOp ==
    /\ result.op = "none"
    /\ \A i \in 1..Len(points) : points[i].k = "pt"
    /\ \E h \in Heights :
          result' = [op |-> "analyze", isseq |-> TRUE, height |-> h,
                     out |-> WingAnalyze(NewWing(points), h)]
    /\ UNCHANGED <<points, restWing>>

Next ==
    \/ AppendPoint
    \/ CalculateIndices
    \/ CalculateDsaExcel
    \/ WingAnalyzeOp

Spec == Init /\ [][Next]_vars

----------------------------------------------------------------------------
(* Properties of the per-wing stage (checked under Spec) *)

AllValid(pts) == \A i \in 1..Len(pts) : pts[i].k = "pt"

\* C8: for any input whose length is not exactly 8 (lists of any other
\* length, and values that are not lists), calculate_indices returns
\* CI = DsA = HI = 0 and calculate_dsa_excel returns (0, (0, 0)) without
\* raising, and Wing.analyze on a wing whose point list has a length other
\* than 8 stores the neutral WingAnalysis.
C8_WrongLengthIsNeutral ==
    /\ (result.op = "calculate_indices" /\ (~result.isseq \/ Len(points) # 8))
          => result.out = [raised |-> "no", CI |-> 0, DsA |-> 0, HI |-> 0]
    /\ (result.op = "calculate_dsa_excel" /\ (~result.isseq \/ Len(points) # 8))
          => result.out = [raised |-> "no", DsA |-> 0, proj |-> [xn |-> 0, yn |-> 0, d |-> 1]]
    /\ (result.op = "analyze" /\ Len(points) # 8)
          => result.out = NeutralAnalysis

\* C9: calculate_indices on an 8-element list never propagates an exception,
\* whichever of P1..P8 is None or malformed.
C9_MalformedPointNeverRaises ==
    (result.op = "calculate_indices" /\ result.isseq /\ Len(points) = 8)
        => result.out.raised = "no"

\* C10: for every 8-point landmark set, P6 = P7 gives CI = 0 and P3 = P4 gives
\* HI = 0, nothing is raised, and the other indices are still computed: HI is
\* the quotient dist(P5,P7)/dist(P3,P4) whenever P3 # P4, CI the quotient
\* dist(P5,P6)/dist(P6,P7) whenever P6 # P7, and DsA the value of
\* calculate_dsa_excel, whatever the degenerate pair.
C10_DegenerateSegments ==
    (result.op = "calculate_indices" /\ result.isseq /\ Len(points) = 8 /\ AllValid(points))
        => LET out == result.out
               d34 == dist(points[3], points[4])
               d57 == dist(points[5], points[7])
               d56 == dist(points[5], points[6])
               d67 == dist(points[6], points[7])
           IN  /\ out.raised = "no"
               /\ points[6] = points[7] => out.CI = 0
               /\ points[3] = points[4] => out.HI = 0
               /\ points[3] # points[4] =>
                     (out.HI * d34 <= 1000 * d57 /\ 1000 * d57 < (out.HI + 1) * d34)
               /\ points[6] # points[7] =>
                     (out.CI * d67 <= 1000 * d56 /\ 1000 * d56 < (out.CI + 1) * d67)
               /\ out.DsA = calculate_dsa_excel([isseq |-> TRUE, items |-> points]).DsA

\* C10 witness: P6 = P7 and P3 # P4; CI is 0 while HI and DsA carry values
C10_Witness ==
    /\ result.op = "calculate_indices" /\ result.isseq
    /\ Len(points) = 8 /\ AllValid(points)
    /\ points[6] = points[7] /\ points[3] # points[4]
    /\ result.out.CI = 0 /\ result.out.HI > 0 /\ result.out.DsA # 0

----------------------------------------------------------------------------
(* identify_breed on index triples around the bounds of the breed table    *)

\* values on and next to every bound of index k, and 0
BoundaryValues(k) ==
    {0} \cup UNION {{BREEDS[b][k][1] - 1, BREEDS[b][k][1], BREEDS[b][k][2], BREEDS[b][k][2] + 1} :
                        b \in DOMAIN BREEDS}

InitBreed ==
    /\ wing_idx \in [CI : BoundaryValues("CI"), DsA : BoundaryValues("DsA"), HI : BoundaryValues("HI")]
    /\ ident = NoIdent
    /\ RestBreedIdle

IdentifyBreed ==
    /\ ident = NoIdent
    /\ ident' = identify_breed(wing_idx.CI, wing_idx.DsA, wing_idx.HI)
    /\ UNCHANGED <<wing_idx, restBreed>>

NextBreed == IdentifyBreed

SpecBreed == InitBreed /\ [][NextBreed]_vars

Identified == ident # NoIdent

MatchedSet == {ident.breeds[i] : i \in 1..Len(ident.breeds)}

\* C1: identify_breed lists a breed (once) among the matched breeds if and
\* only if all three index values lie inside that breed's three closed
\* intervals, bounds included, at the same time.
C1_BreedMatchesIffAllThreeInside ==
    Identified =>
        /\ \A b \in DOMAIN BREEDS :
              (b \in MatchedSet) <=>
                 /\ BREEDS[b].CI[1] <= wing_idx.CI /\ wing_idx.CI <= BREEDS[b].CI[2]
                 /\ BREEDS[b].DsA[1] <= wing_idx.DsA /\ wing_idx.DsA <= BREEDS[b].DsA[2]
                 /\ BREEDS[b].HI[1] <= wing_idx.HI /\ wing_idx.HI <= BREEDS[b].HI[2]
        /\ MatchedSet \subseteq DOMAIN BREEDS
        /\ Cardinality(MatchedSet) = Len(ident.breeds)

\* C1 witness: a wing that matches several breeds, with the indices sitting
\* exactly on bounds of a matched breed (Mellifera's upper CI and DsA bounds)
C1_Witness ==
    /\ Identified
    /\ Len(ident.breeds) >= 2
    /\ "Mellifera" \in MatchedSet
    /\ wing_idx.CI = BREEDS["Mellifera"].CI[2]
    /\ wing_idx.DsA = BREEDS["Mellifera"].DsA[2]

\* C1 (zero matches): the matched list can be empty
C1_WitnessNoMatch == Identified /\ ident.breeds = <<>>

\* C2: for every index k, index_valid[k] is True if and only if at least one
\* breed's closed interval for k contains the value of k, whatever the other
\* two indices are.
C2_IndexValidIffSomeBreedContains ==
    Identified =>
        \A k \in IndexNames :
            ident.index_valid[k] <=>
                \E b \in DOMAIN BREEDS :
                    BREEDS[b][k][1] <= wing_idx[k] /\ wing_idx[k] <= BREEDS[b][k][2]

\* C2 witness: no breed matches, yet every index is valid on its own
C2_Witness ==
    /\ Identified
    /\ ident.breeds = <<>>
    /\ \A k \in IndexNames : ident.index_valid[k]

----------------------------------------------------------------------------
(* calculate_hybridization_score on colony samples: a block of identical   *)
(* wings inside the breed's range plus a few wings placed around its       *)
(* critical bound                                                          *)

MaxExtra == 4

BulkSizes == {0, 16, 48, 96}

HybConfigs ==
    { [breed |-> "Mellifera", itype |-> "CI", base |-> 1800,
       extra |-> {0, 1560, 2160, 2180, 2260}],
      [breed |-> "Mellifera", itype |-> "HI", base |-> 700,
       extra |-> {760, 616, 610, 540}],
      [breed |-> "Carnica", itype |-> "CI", base |-> 1800,
       extra |-> {0, 1560, 2500}] }

ConfigOf(breed, itype) == CHOOSE c \in HybConfigs : c.breed = breed /\ c.itype = itype

InitHyb ==
    /\ \E c \in HybConfigs, k \in BulkSizes :
          /\ breed_name = c.breed
          /\ index_type = c.itype
          /\ values = [i \in 1..k |-> c.base]
    /\ hyb = NoScore
    /\ RestHybIdle

AppendValue ==
    /\ ~hyb.done
    /\ \E k \in BulkSizes : Len(values) < k + MaxExtra /\ Len(values) >= k
    /\ \E v \in ConfigOf(breed_name, index_type).extra : values' = Append(values, v)
    /\ UNCHANGED <<breed_name, index_type, hyb, restHyb>>

HybridizationScore ==
    /\ ~hyb.done
    /\ \E run \in hybridization_runs(values, breed_name, index_type) :
          hyb' = [done |-> TRUE, score |-> run.score]
    /\ UNCHANGED <<values, breed_name, index_type, restHyb>>

NextHyb ==
    \/ AppendValue
    \/ HybridizationScore

SpecHyb == InitHyb /\ [][NextHyb]_vars

(* The quantities of the scoring rule, computed from the sample by direct  *)
(* arithmetic on bin numbers                                               *)

\* number of the bin a value falls into: floor(30 (v - lo) / (hi - lo)), the maximum into bin 29
HBin(v, lo, hi) == IF v = hi THEN num_bins - 1 ELSE (num_bins * (v - lo)) \div (hi - lo)

\* number of the first bin whose closed interval contains the bound c
HBoundaryBin(c, lo, hi) ==
    IF c = lo THEN 0 ELSE ((num_bins * (c - lo) + (hi - lo) - 1) \div (hi - lo)) - 1

HStats ==
    LET valid == NonZero(values)
        total == Len(valid)
        lo    == MinSeq(valid)
        hi    == MaxSeq(valid)
        bmin  == BREED_RANGES[breed_name][index_type][1]
        bmax  == BREED_RANGES[breed_name][index_type][2]
        sum   == SumSeq(valid)
        \* the bound closer to the mean is the lower one (strictly), else the upper one
        lower == Abs(sum - total * bmin) < Abs(sum - total * bmax)
        crit  == IF lower THEN bmin ELSE bmax
        bb    == HBoundaryBin(crit, lo, hi)
        \* number of bins from the boundary bin to the bin of v, counted outwards
        Outward(v) == IF lower THEN bb - HBin(v, lo, hi) ELSE HBin(v, lo, hi) - bb
        out   == [j \in 1..total |-> Outward(valid[j])]
    IN  IF total = 0 \/ lo = hi
        THEN [histogram |-> FALSE, inrange |-> FALSE, total |-> total, rank2 |-> 0, rank1 |-> 0, beyond |-> 0]
        ELSE IF crit < lo \/ crit > hi
        THEN [histogram |-> TRUE, inrange |-> FALSE, total |-> total, rank2 |-> 0, rank1 |-> 0,
              beyond |-> Cardinality({j \in 1..total : IF lower THEN valid[j] < crit ELSE valid[j] > crit})]
        ELSE [histogram |-> TRUE, inrange |-> TRUE, total |-> total,
              rank2 |-> Cardinality({j \in 1..total : out[j] > 3}),
              rank1 |-> Cardinality({j \in 1..total : out[j] >= 1 /\ out[j] <= 3}),
              beyond |-> Cardinality({j \in 1..total : IF lower THEN valid[j] < crit ELSE valid[j] > crit})]

C11_IdenticalValuesScoreThree ==
    (hyb.done /\ breed_name \in DOMAIN BREED_RANGES /\ Len(NonZero(values)) >= 1
     /\ \A i, j \in 1..Len(values) : (values[i] # 0 /\ values[j] # 0) => values[i] = values[j])
        => hyb.score = 3

\* C11 witness: several identical values, all beyond the breed's interval,
\* with zeros mixed in
C11_Witness ==
    /\ hyb.done /\ hyb.score = 3
    /\ Len(NonZero(values)) >= 2 /\ Len(NonZero(values)) < Len(values)
    /\ \A i \in 1..Len(NonZero(values)) :
          /\ NonZero(values)[i] = NonZero(values)[1]
          /\ NonZero(values)[i] > BREED_RANGES[breed_name][index_type][2]

----------------------------------------------------------------------------
(* Colony scoring (ui/analysis_widget.py, ui/batch_widget.py).             *)
(* Percentages are exact rationals [num, den]; coefficients of variation  *)
(* are in units of 10^-3 percent, means in units of 10^-3.                 *)

\* np.ceil(a / b) and np.floor(a / b) for b > 0
CeilDiv(a, b)  == -((-a) \div b)
FloorDiv(a, b) == a \div b

\* penalty_not_id = -int(np.ceil(not_id_pct / 5)), not_id_pct = 100 * not_identified / total
PenaltyNotId(total, identified) == -CeilDiv(100 * (total - identified), 5 * total)

\* diff = (id_pct - 100.0) / 10.0; ceil for diff >= 0, floor otherwise; max(0, 5 + roundup_value)
BreedScoreRoundup(id_pct) ==
    LET a == id_pct.num - 100 * id_pct.den
        b == 10 * id_pct.den
        roundup_value == IF a >= 0 THEN CeilDiv(a, b) ELSE FloorDiv(a, b)
    IN  Max2(0, 5 + roundup_value)

\* breed_score = 5 + int(np.ceil((id_pct - 100.0) / 10.0)); max(0, breed_score)
BreedScoreCeil(id_pct) ==
    LET a == id_pct.num - 100 * id_pct.den
        b == 10 * id_pct.den
    IN  Max2(0, 5 + CeilDiv(a, b))

\* dispersion scores of the analysis widget
CiScore(cv_ci) == IF cv_ci < 12500 THEN 2 ELSE IF cv_ci < 20000 THEN 1 ELSE 0
HiScore(cv_hi) == IF cv_hi < 6500 THEN 2 ELSE IF cv_hi < 7500 THEN 1 ELSE 0

\* id_pct = breed_probabilities.get(max_breed, 0.0) * 100
PctOfProbability(prob) ==
    LET g == GCD(100, prob.den) IN [num |-> (100 \div g) * prob.num, den |-> prob.den \div g]

calculate_analysis_results(c) ==
    LET id_pct         == PctOfProbability(c.prob)
        breed_score    == BreedScoreRoundup(id_pct)
        penalty_not_id == PenaltyNotId(c.total, c.identified)
        ci_score       == CiScore(c.cv_ci)
        hi_score       == HiScore(c.cv_hi)
        total_score    == penalty_not_id + breed_score + ci_score + hi_score
                          + c.ci_hyb + c.dsa_hyb + c.hi_hyb
    IN  [op |-> "calculate_analysis_results", total |-> c.total, identified |-> c.identified,
         breed_match_pct |-> id_pct, breed_score |-> breed_score,
         ci_score |-> ci_score, hi_score |-> hi_score, score |-> total_score]

\* suitability rows with the founder threshold exclusive
Suitability_FounderAbove(total_score) ==
    [founder |-> total_score > 17, queens |-> total_score >= 15,
     selection |-> total_score >= 10, general |-> total_score >= 5]

\* the four suitability rows shown under the total score
Suitability(total_score) ==
    [founder |-> total_score >= 17, queens |-> total_score >= 15,
     selection |-> total_score >= 10, general |-> total_score >= 5]

\* update_statistics with the three hybridization sub-scores left out of the total
update_statistics_WithoutHybridization(c) ==
    LET penalty_not_id == PenaltyNotId(c.total, c.identified)
        id_pct         == PctOfProbability(c.prob)
        breed_score    == BreedScoreRoundup(id_pct)
        ci_score       == CiScore(c.cv_ci)
        hi_score       == HiScore(c.cv_hi)
        total_score    == (((0 + penalty_not_id) + breed_score) + ci_score) + hi_score
    IN  [op |-> "update_statistics", total |-> c.total, identified |-> c.identified,
         breed_match_pct |-> id_pct, breed_score |-> breed_score,
         ci_score |-> ci_score, hi_score |-> hi_score, score |-> total_score,
         suitability |-> Suitability(total_score)]

\* AnalysisWidget.update_statistics: the scoring part, total_score accumulated
\* row by row
update_statistics(c) ==
    LET penalty_not_id == PenaltyNotId(c.total, c.identified)
        id_pct         == PctOfProbability(c.prob)
        breed_score    == BreedScoreRoundup(id_pct)
        ci_score       == CiScore(c.cv_ci)
        hi_score       == HiScore(c.cv_hi)
        total_score    == ((((((0 + penalty_not_id) + breed_score) + ci_score) + hi_score)
                          + c.ci_hyb) + c.dsa_hyb) + c.hi_hyb
    IN  [op |-> "update_statistics", total |-> c.total, identified |-> c.identified,
         breed_match_pct |-> id_pct, breed_score |-> breed_score,
         ci_score |-> ci_score, hi_score |-> hi_score, score |-> total_score,
         suitability |-> Suitability(total_score)]

\* BatchResultsWidget._calc_score, called with breed_match_pct = 100 * identified / total
calc_score(total, identified, mean_ci, mean_dsa, mean_hi, cv_ci, cv_hi) ==
    LET s1 == IF total > 0 THEN -CeilDiv(100 * (total - identified), 5 * total) ELSE 0
        id_pct == [num |-> 100 * identified, den |-> total]
        s2 == IF total > 0 THEN BreedScoreCeil(id_pct) ELSE 0
        s3 == IF cv_ci < 12500 THEN 1 ELSE IF cv_ci < 20000 THEN 1 ELSE 0
        s4 == IF cv_hi < 6500 THEN 1 ELSE IF cv_hi < 7500 THEN 1 ELSE 0
        s5 == IF mean_ci < 1700 THEN 3 ELSE IF mean_ci < 1900 THEN 2 ELSE IF mean_ci < 2100 THEN 1 ELSE 0
        s6 == IF mean_dsa <= -3000 THEN 3 ELSE IF mean_dsa <= -1000 THEN 2 ELSE IF mean_dsa < 0 THEN 1 ELSE 0
        s7 == IF mean_hi < 850 THEN 3 ELSE IF mean_hi < 900 THEN 2 ELSE IF mean_hi < 923 THEN 1 ELSE 0
    IN  [breed_score |-> s2, ci_score |-> s3, hi_score |-> s4,
         score |-> s1 + s2 + s3 + s4 + s5 + s6 + s7]

(* Scoring specification: a colony summary is drawn, then one of the three *)
(* scoring paths stores its results                                        *)

MaxTotal == 20

\* probability of the dominant breed, in thousandths
ProbGrid == {0, 500, 685, 900, 950, 999, 1000}

StatProfiles ==
    { [cv_ci |-> 12400, cv_hi |-> 6400, mean_ci |-> 1650, mean_dsa |-> -3500, mean_hi |-> 800,
       ci_hyb |-> 3, dsa_hyb |-> 3, hi_hyb |-> 3],
      [cv_ci |-> 12500, cv_hi |-> 6500, mean_ci |-> 1850, mean_dsa |-> -1000, mean_hi |-> 870,
       ci_hyb |-> 2, dsa_hyb |-> 1, hi_hyb |-> 3],
      [cv_ci |-> 20000, cv_hi |-> 7500, mean_ci |-> 2150, mean_dsa |-> 500, mean_hi |-> 930,
       ci_hyb |-> 0, dsa_hyb |-> 0, hi_hyb |-> 1] }

InitScore ==
    /\ \E total \in 1..MaxTotal, identified \in 0..MaxTotal, pm \in ProbGrid, st \in StatProfiles :
          /\ identified <= total
          \* a positive probability needs at least two identified wings
          /\ (identified < 2 => pm = 0)
          /\ colony = [total |-> total, identified |-> identified,
                       prob |-> [num |-> pm, den |-> 1000],
                       cv_ci |-> st.cv_ci, cv_hi |-> st.cv_hi,
                       mean_ci |-> st.mean_ci, mean_dsa |-> st.mean_dsa, mean_hi |-> st.mean_hi,
                       ci_hyb |-> st.ci_hyb, dsa_hyb |-> st.dsa_hyb, hi_hyb |-> st.hi_hyb]
    /\ scored = NoResults
    /\ batch_results = NoRow
    /\ RestScoreIdle

CalculateAnalysisResults ==
    /\ scored.op = "none"
    /\ scored' = calculate_analysis_results(colony)
    /\ UNCHANGED <<colony, batch_results, restScore>>

UpdateStatistics ==
    /\ scored.op = "none"
    /\ scored' = update_statistics(colony)
    /\ UNCHANGED <<colony, batch_results, restScore>>

\* the fallback branch of update_batch_results (no stored analysis results)
CalcScore ==
    /\ scored.op = "none"
    /\ LET r == calc_score(colony.total, colony.identified, colony.mean_ci, colony.mean_dsa,
                           colony.mean_hi, colony.cv_ci, colony.cv_hi)
       IN  scored' = [op |-> "_calc_score", total |-> colony.total, identified |-> colony.identified,
                      breed_match_pct |-> [num |-> 100 * colony.identified, den |-> colony.total],
                      breed_score |-> r.breed_score,
                      ci_score |-> r.ci_score, hi_score |-> r.hi_score, score |-> r.score]
    /\ UNCHANGED <<colony, batch_results, restScore>>

\* the row written although analysis results are stored: always the legacy formula
update_batch_results_AlwaysLegacy(c, analysis_results) ==
    [shown |-> TRUE, legacy |-> TRUE, total |-> c.total, identified |-> c.identified,
     breed_match_pct |-> [num |-> 100 * c.identified, den |-> c.total],
     score |-> calc_score(c.total, c.identified, c.mean_ci, c.mean_dsa,
                          c.mean_hi, c.cv_ci, c.cv_hi).score]

\* BatchResultsWidget.update_batch_results for one image with wings: the row
\* from the stored analysis results if the dict is not empty, otherwise from
\* the wings and _calc_score (legacy tells which branch ran)
update_batch_results(c, analysis_results) ==
    IF analysis_results.op # "none"
    THEN [shown |-> TRUE, legacy |-> FALSE, total |-> analysis_results.total,
          identified |-> analysis_results.identified,
          breed_match_pct |-> analysis_results.breed_match_pct,
          score |-> analysis_results.score]
    ELSE [shown |-> TRUE, legacy |-> TRUE, total |-> c.total, identified |-> c.identified,
          breed_match_pct |-> [num |-> 100 * c.identified, den |-> c.total],
          score |-> calc_score(c.total, c.identified, c.mean_ci, c.mean_dsa,
                               c.mean_hi, c.cv_ci, c.cv_hi).score]

\* the batch table is rebuilt; image_data.analysis_results is what
\* calculate_analysis_results or update_statistics stored, or still empty
UpdateBatchResults ==
    /\ ~batch_results.shown
    /\ scored.op \in {"none", "calculate_analysis_results", "update_statistics"}
    /\ batch_results' = update_batch_results(colony, scored)
    /\ UNCHANGED <<colony, scored, restScore>>

NextScore ==
    \/ CalculateAnalysisResults
    \/ UpdateStatistics
    \/ CalcScore
    \/ UpdateBatchResults

SpecScore == InitScore /\ [][NextScore]_vars

\* rounding of the rational a / b (b > 0) away from zero
RoundAwayFromZero(a, b) == IF a >= 0 THEN CeilDiv(a, b) ELSE -CeilDiv(-a, b)

\* C5: every scoring path (calculate_analysis_results, update_statistics and
\* the batch fallback _calc_score) gives the breed-probability score
\* max(0, 5 + roundup((pct - 100) / 10)) with roundup rounding away from zero.
C5_BreedScoreRoundsAwayFromZero ==
    scored.op # "none" =>
        LET pct == scored.breed_match_pct
        IN  scored.breed_score =
                Max2(0, 5 + RoundAwayFromZero(pct.num - 100 * pct.den, 10 * pct.den))

\* C5 restricted to the two paths of the analysis widget
C5_AnalysisPathsRoundAwayFromZero ==
    scored.op \in {"calculate_analysis_results", "update_statistics"} =>
        LET pct == scored.breed_match_pct
        IN  scored.breed_score =
                Max2(0, 5 + RoundAwayFromZero(pct.num - 100 * pct.den, 10 * pct.den))

\* C13: the suitability tiers shown by update_statistics have inclusive
\* thresholds on the total score (founder >= 17, queen rearing >= 15,
\* selection >= 10, general use >= 5); they are nested, and a total below 5
\* qualifies for none.
C13_SuitabilityTiers ==
    scored.op = "update_statistics" =>
        LET t == scored.suitability IN
        /\ t.founder   <=> scored.score >= 17
        /\ t.queens    <=> scored.score >= 15
        /\ t.selection <=> scored.score >= 10
        /\ t.general   <=> scored.score >= 5
        /\ (t.founder => t.queens) /\ (t.queens => t.selection) /\ (t.selection => t.general)
        /\ (scored.score < 5 => ~t.general)

\* C13 witness: a colony with total score exactly 17 shown as founder
C13_Witness ==
    /\ scored.op = "update_statistics"
    /\ scored.score = 17
    /\ scored.suitability.founder

\* C13 witness: a colony with total score 4 that qualifies for no tier
C13_WitnessUnsuitable ==
    /\ scored.op = "update_statistics"
    /\ scored.score = 4
    /\ ~scored.suitability.general

\* C12: in every scoring path the CI dispersion score is 2 for cv_ci < 12.5,
\* 1 for 12.5 <= cv_ci < 20 and 0 otherwise, and the HI dispersion score is 2
\* for cv_hi < 6.5, 1 for 6.5 <= cv_hi < 7.5 and 0 otherwise.
C12_DispersionScores ==
    scored.op # "none" =>
        /\ scored.ci_score = (IF colony.cv_ci < 12500 THEN 2 ELSE IF colony.cv_ci < 20000 THEN 1 ELSE 0)
        /\ scored.hi_score = (IF colony.cv_hi < 6500 THEN 2 ELSE IF colony.cv_hi < 7500 THEN 1 ELSE 0)

\* C12 restricted to the two paths of the analysis widget
C12_AnalysisPathsDispersionScores ==
    scored.op \in {"calculate_analysis_results", "update_statistics"} =>
        /\ scored.ci_score = (IF colony.cv_ci < 12500 THEN 2 ELSE IF colony.cv_ci < 20000 THEN 1 ELSE 0)
        /\ scored.hi_score = (IF colony.cv_hi < 6500 THEN 2 ELSE IF colony.cv_hi < 7500 THEN 1 ELSE 0)

----------------------------------------------------------------------------
(* Breed probability (core/calculations.py).  Values are in units of      *)
(* 10^-3; the rounded standard deviation is an integer in the same unit.  *)
(* An interval of an index over n values is kept as the pair of its       *)
(* bounds multiplied by 100 * n.  The returned quotient                   *)
(* inter_vol / fam_vol is kept as the three per-index quotients           *)
(* overlap / width in lowest terms; the float 0.0 is ZeroProbability.     *)

RECURSIVE SumSq(_, _)
SumSq(sq, shift) ==
    IF sq = <<>> THEN 0 ELSE (Head(sq) - shift) * (Head(sq) - shift) + SumSq(Tail(sq), shift)

\* stdev = round(np.std(vals, ddof=1), 3) for len(vals) > 1, else 0.0;
\* the variance is (n * sum(u^2) - sum(u)^2) / (n (n - 1)) for u = v - vals[0];
\* a deviation halfway between two thousandths (RoundingTie) gives the upper one
mean_stdev(vals) ==
    LET vs == NonZero(vals)
        n  == Len(vs)
    IN  IF n = 0 THEN [n |-> 1, sum |-> 0, stdev |-> 0]
        ELSE IF n = 1 THEN [n |-> 1, sum |-> vs[1], stdev |-> 0]
        ELSE LET su  == SumSeq(vs) - n * vs[1]
                 num == n * SumSq(vs, vs[1]) - su * su
             IN  [n |-> n, sum |-> SumSeq(vs),
                  stdev |-> (ISqrt((4 * num) \div (n * (n - 1))) + 1) \div 2]

\* lo = mean - stdev * 1.96, hi = mean + stdev * 1.96, both times 100 * n
interval(ms) ==
    [lo |-> 100 * ms.sum - 196 * ms.n * ms.stdev,
     hi |-> 100 * ms.sum + 196 * ms.n * ms.stdev,
     scale |-> 100 * ms.n]

\* overlap without the disjointness test and without the clamp at 0
overlap_Unclamped(a_lo, a_hi, b_lo, b_hi) == Min2(a_hi, b_hi) - Max2(a_lo, b_lo)

\* the length of the breed's interval whenever the two intervals meet
overlap_BreedLength(a_lo, a_hi, b_lo, b_hi) ==
    IF a_hi < b_lo \/ a_lo > b_hi THEN 0
    ELSE b_hi - b_lo

\* _overlap(a_lo, a_hi, b_lo, b_hi)
overlap(a_lo, a_hi, b_lo, b_hi) ==
    IF a_hi < b_lo \/ a_lo > b_hi THEN 0
    ELSE Max2(0, Min2(a_hi, b_hi) - Max2(a_lo, b_lo))

\* fam_vol <= 0 taken as "no width at all"
FamVolNotPositive_AllZero(w_ci, w_dsa, w_hi) == w_ci = 0 /\ w_dsa = 0 /\ w_hi = 0

\* fam_vol = w_ci * w_dsa * w_hi; fam_vol <= 0  (decided on the signs of the factors)
FamVolNotPositive(w_ci, w_dsa, w_hi) ==
    \/ w_ci = 0 \/ w_dsa = 0 \/ w_hi = 0
    \/ Cardinality({k \in 1..3 : <<w_ci, w_dsa, w_hi>>[k] < 0}) \in {1, 3}

Ratio(n, d) == LET g == GCD(Abs(n), Abs(d)) IN [num |-> n \div g, den |-> d \div g]

ZeroProbability == [op |-> "returned", value |-> "zero"]

\* float(inter_vol / fam_vol)
Quotient(ov_ci, ov_dsa, ov_hi, w_ci, w_dsa, w_hi) ==
    IF w_ci = 0 \/ w_dsa = 0 \/ w_hi = 0 THEN [op |-> "raised", value |-> "ZeroDivisionError"]
    ELSE IF ov_ci = 0 \/ ov_dsa = 0 \/ ov_hi = 0 THEN ZeroProbability
    ELSE [op |-> "returned", value |-> "ratio",
          CI |-> Ratio(ov_ci, w_ci), DsA |-> Ratio(ov_dsa, w_dsa), HI |-> Ratio(ov_hi, w_hi)]

\* the function without its first test: an unknown name reaches the table lookup
calculate_breed_probability_NoNameTest(ci_values, dsa_values, hi_values, breed) ==
    LET ci  == interval(mean_stdev(ci_values))
        dsa == interval(mean_stdev(dsa_values))
        hi  == interval(mean_stdev(hi_values))
    IN
    IF FamVolNotPositive(ci.hi - ci.lo, dsa.hi - dsa.lo, hi.hi - hi.lo) THEN ZeroProbability
    ELSE IF breed \notin DOMAIN BREED_RANGES THEN [op |-> "raised", value |-> "KeyError"]
    ELSE
    LET br     == BREED_RANGES[breed]
        ov_ci  == overlap(ci.lo, ci.hi, ci.scale * br["CI"][1], ci.scale * br["CI"][2])
        ov_dsa == overlap(dsa.lo, dsa.hi, dsa.scale * br["DsA"][1], dsa.scale * br["DsA"][2])
        ov_hi  == overlap(hi.lo, hi.hi, hi.scale * br["HI"][1], hi.scale * br["HI"][2])
    IN  Quotient(ov_ci, ov_dsa, ov_hi, ci.hi - ci.lo, dsa.hi - dsa.lo, hi.hi - hi.lo)

calculate_breed_probability(ci_values, dsa_values, hi_values, breed) ==
    IF breed \notin DOMAIN BREED_RANGES THEN ZeroProbability
    ELSE
    LET ci  == interval(mean_stdev(ci_values))
        dsa == interval(mean_stdev(dsa_values))
        hi  == interval(mean_stdev(hi_values))
    IN
    IF FamVolNotPositive(ci.hi - ci.lo, dsa.hi - dsa.lo, hi.hi - hi.lo) THEN ZeroProbability
    ELSE
    LET br     == BREED_RANGES[breed]
        ov_ci  == overlap(ci.lo, ci.hi, ci.scale * br["CI"][1], ci.scale * br["CI"][2])
        ov_dsa == overlap(dsa.lo, dsa.hi, dsa.scale * br["DsA"][1], dsa.scale * br["DsA"][2])
        ov_hi  == overlap(hi.lo, hi.hi, hi.scale * br["HI"][1], hi.scale * br["HI"][2])
    IN  Quotient(ov_ci, ov_dsa, ov_hi, ci.hi - ci.lo, dsa.hi - dsa.lo, hi.hi - hi.lo)

\* round(stdev, 3) rounds the float np.std returned.  When the exact sample
\* deviation lies halfway between two thousandths, that float lies beside the
\* halfway point, on the side the rounding errors of the additions leave it:
\* the exact value does not decide the result
RoundingTie(vals) ==
    LET vs == NonZero(vals)
        n  == Len(vs)
    IN  /\ n > 1
        /\ LET su  == SumSeq(vs) - n * vs[1]
               num == n * SumSq(vs, vs[1]) - su * su
               r   == ISqrt((4 * num) \div (n * (n - 1)))
           IN  /\ (4 * num) % (n * (n - 1)) = 0
               /\ r * r = (4 * num) \div (n * (n - 1))
               /\ r % 2 = 1

\* the results of _mean_stdev(values): one, or at a tie the two thousandths
\* beside the exact deviation
mean_stdev_Outcomes(vals) ==
    IF RoundingTie(vals)
    THEN {mean_stdev(vals), [mean_stdev(vals) EXCEPT !.stdev = @ - 1]}
    ELSE {mean_stdev(vals)}

\* calculate_breed_probability from the three (mean, stdev) pairs on
probability_from(ci_ms, dsa_ms, hi_ms, breed) ==
    IF breed \notin DOMAIN BREED_RANGES THEN ZeroProbability
    ELSE
    LET ci  == interval(ci_ms)
        dsa == interval(dsa_ms)
        hi  == interval(hi_ms)
    IN
    IF FamVolNotPositive(ci.hi - ci.lo, dsa.hi - dsa.lo, hi.hi - hi.lo) THEN ZeroProbability
    ELSE
    LET br     == BREED_RANGES[breed]
        ov_ci  == overlap(ci.lo, ci.hi, ci.scale * br["CI"][1], ci.scale * br["CI"][2])
        ov_dsa == overlap(dsa.lo, dsa.hi, dsa.scale * br["DsA"][1], dsa.scale * br["DsA"][2])
        ov_hi  == overlap(hi.lo, hi.hi, hi.scale * br["HI"][1], hi.scale * br["HI"][2])
    IN  Quotient(ov_ci, ov_dsa, ov_hi, ci.hi - ci.lo, dsa.hi - dsa.lo, hi.hi - hi.lo)

\* the values calculate_breed_probability can return for the three lists
calculate_breed_probability_Outcomes(ci_values, dsa_values, hi_values, breed) ==
    {probability_from(ci_ms, dsa_ms, hi_ms, breed) :
        ci_ms \in mean_stdev_Outcomes(ci_values),
        dsa_ms \in mean_stdev_Outcomes(dsa_values),
        hi_ms \in mean_stdev_Outcomes(hi_values)}

(* Probability specification: the three value lists of a family are built  *)
(* value by value (the CI list may start with a block of equal values),   *)
(* then the probability is computed for the chosen breed                   *)

MaxCI == 2

MaxOther == 2

BlockSizes == {0, 4}

BlockValue == 1000

CIGrid  == {0, 1001, 1800, 2400}
DsAGrid == {-3000, 2000, 2100}
HIGrid  == {700, 800}

ProbBreeds == {"Mellifera", "Carnica", "Buckfast"}

InitProb ==
    /\ \E b \in ProbBreeds, k \in BlockSizes :
          family = [breed |-> b, ci |-> [i \in 1..k |-> BlockValue], dsa |-> <<>>, hi |-> <<>>]
    /\ probability = NoProbability
    /\ RestProbIdle

AppendCI ==
    /\ probability = NoProbability
    /\ \E k \in BlockSizes : Len(family.ci) >= k /\ Len(family.ci) < k + MaxCI
    /\ \E v \in CIGrid : family' = [family EXCEPT !.ci = Append(@, v)]
    /\ UNCHANGED <<probability, restProb>>

AppendDsA ==
    /\ probability = NoProbability
    /\ Len(family.dsa) < MaxOther
    /\ \E v \in DsAGrid : family' = [family EXCEPT !.dsa = Append(@, v)]
    /\ UNCHANGED <<probability, restProb>>

AppendHI ==
    /\ probability = NoProbability
    /\ Len(family.hi) < MaxOther
    /\ \E v \in HIGrid : family' = [family EXCEPT !.hi = Append(@, v)]
    /\ UNCHANGED <<probability, restProb>>

BreedProbability ==
    /\ probability = NoProbability
    /\ probability' = calculate_breed_probability(family.ci, family.dsa, family.hi, family.breed)
    /\ UNCHANGED <<family, restProb>>

NextProb ==
    \/ AppendCI
    \/ AppendDsA
    \/ AppendHI
    \/ BreedProbability

SpecProb == InitProb /\ [][NextProb]_vars

(* The family interval of an index and its intersection with the breed's   *)
(* interval, by cases on the position of the two intervals                 *)

FamilyInterval(k) ==
    interval(mean_stdev(IF k = "CI" THEN family.ci ELSE IF k = "DsA" THEN family.dsa ELSE family.hi))

IntersectionLength(a_lo, a_hi, b_lo, b_hi) ==
    IF a_hi < b_lo \/ b_hi < a_lo THEN 0                 \* disjoint
    ELSE IF b_lo <= a_lo /\ a_hi <= b_hi THEN a_hi - a_lo  \* family inside breed
    ELSE IF a_lo <= b_lo /\ b_hi <= a_hi THEN b_hi - b_lo  \* breed inside family
    ELSE IF a_lo < b_lo THEN a_hi - b_lo                   \* family reaches in from below
    ELSE b_hi - a_lo                                       \* family reaches in from above

OverlapOf(k) ==
    LET f == FamilyInterval(k)
        r == BREED_RANGES[family.breed][k]
    IN  IntersectionLength(f.lo, f.hi, f.scale * r[1], f.scale * r[2])

WidthOf(k) == FamilyInterval(k).hi - FamilyInterval(k).lo

KnownBreed == family.breed \in DOMAIN BREED_RANGES

\* C6: for a known breed and a family volume greater than 0 the result is
\* (overlap_CI * overlap_DsA * overlap_HI) / family_volume, each overlap being
\* the length of the intersection of the family interval with the breed's
\* interval (0 when they are disjoint).
C6_ProbabilityIsOverlapOverVolume ==
    (probability # NoProbability /\ KnownBreed
     /\ WidthOf("CI") > 0 /\ WidthOf("DsA") > 0 /\ WidthOf("HI") > 0) =>
        IF OverlapOf("CI") = 0 \/ OverlapOf("DsA") = 0 \/ OverlapOf("HI") = 0
        THEN probability = ZeroProbability
        ELSE probability = [op |-> "returned", value |-> "ratio",
                            CI  |-> Ratio(OverlapOf("CI"), WidthOf("CI")),
                            DsA |-> Ratio(OverlapOf("DsA"), WidthOf("DsA")),
                            HI  |-> Ratio(OverlapOf("HI"), WidthOf("HI"))]

\* C6 witness: a positive probability below 1: the CI interval sticks out of
\* the breed's interval, the other two intervals overlap it
C6_Witness ==
    /\ probability # NoProbability /\ KnownBreed
    /\ probability.value = "ratio"
    /\ probability.CI.num < probability.CI.den
    /\ OverlapOf("CI") > 0 /\ OverlapOf("CI") < WidthOf("CI")

\* C6 witness: positive volume, one interval disjoint from the breed's
C6_WitnessDisjoint ==
    /\ probability = ZeroProbability /\ KnownBreed
    /\ WidthOf("CI") > 0 /\ WidthOf("DsA") > 0 /\ WidthOf("HI") > 0
    /\ OverlapOf("DsA") = 0

\* the interval of the list has zero width: fewer than two nonzero values, or
\* a sample standard deviation below 0.0005 (it rounds to 0.000)
ZeroWidth(vals) ==
    LET vs == NonZero(vals)
        n  == Len(vs)
        su == SumSeq(vs) - n * vs[1]
    IN  \/ n < 2
        \/ 4 * (n * SumSq(vs, vs[1]) - su * su) < n * (n - 1)

\* C7: if the family interval of any one index has zero width, the result is
\* 0.0 for every breed, wherever the interval lies.
C7_ZeroWidthGivesZero ==
    (probability # NoProbability
     /\ (ZeroWidth(family.ci) \/ ZeroWidth(family.dsa) \/ ZeroWidth(family.hi))) =>
        probability = ZeroProbability

\* C7 witness: a known breed, five CI values whose deviation rounds to 0 and
\* lies inside the breed's CI interval, spread in the other two indices
C7_Witness ==
    /\ probability = ZeroProbability /\ KnownBreed
    /\ Len(NonZero(family.ci)) = 5
    /\ \E i \in 1..5 : family.ci[i] # family.ci[1]
    /\ ZeroWidth(family.ci) /\ ~ZeroWidth(family.dsa) /\ ~ZeroWidth(family.hi)
    /\ BREED_RANGES[family.breed]["CI"][1] < BlockValue
    /\ BlockValue < BREED_RANGES[family.breed]["CI"][2]

\* C18: for a breed name that is not in the reference table the result is
\* 0.0, whatever the three value lists are, and nothing is raised.
C18_UnknownBreedGivesZero ==
    (probability # NoProbability /\ ~KnownBreed) => probability = ZeroProbability

\* C18 witness: an unknown breed with spread in all three indices
C18_Witness ==
    /\ probability = ZeroProbability /\ ~KnownBreed
    /\ WidthOf("CI") > 0 /\ WidthOf("DsA") > 0 /\ WidthOf("HI") > 0

\* C19: the result for missing reference data (a breed name that is not in the
\* table) differs from the result of a valid computation that found no match
\* (a known breed, positive family volume, an interval disjoint from the
\* breed's).
C19_MissingReferenceDistinguishable ==
    (probability # NoProbability /\ KnownBreed
     /\ WidthOf("CI") > 0 /\ WidthOf("DsA") > 0 /\ WidthOf("HI") > 0
     /\ (OverlapOf("CI") = 0 \/ OverlapOf("DsA") = 0 \/ OverlapOf("HI") = 0))
        => probability # calculate_breed_probability(family.ci, family.dsa, family.hi, "Buckfast")


----------------------------------------------------------------------------
(* Specification SpecProblem: get_problem_points as a pure function.  Init *)
(* draws an index_valid dict: any entries with distinct names, in any      *)
(* insertion order, "Other" being a name INDEX_POINTS does not know.       *)

ProblemNames == {"CI", "DsA", "HI", "Other"}

EntrySeqs ==
    UNION {{q \in [1..n -> [name : ProblemNames, is_valid : BOOLEAN]] :
                \A i, j \in 1..n : i # j => q[i].name # q[j].name}
           : n \in 0..Cardinality(ProblemNames)}

InitProblem ==
    /\ validity \in EntrySeqs
    /\ problem_points = NoProblemPoints
    /\ RestProblemIdle

GetProblemPoints ==
    /\ problem_points = NoProblemPoints
    /\ problem_points' = [op |-> "returned", value |-> get_problem_points(validity)]
    /\ UNCHANGED <<validity, restProblem>>

NextProblem == GetProblemPoints

SpecProblem == InitProblem /\ [][NextProblem]_vars

\* Landmarks the invalid, known entries of the dict point at.
InvalidLandmarks ==
    UNION {INDEX_POINTS[validity[i].name] :
             i \in {j \in 1..Len(validity) :
                       ~validity[j].is_valid /\ validity[j].name \in DOMAIN INDEX_POINTS}}

Reorderings ==
    LET n == Len(validity)
    IN  {[i \in 1..n |-> validity[f[i]]] :
            f \in {g \in [1..n -> 1..n] : \A i, j \in 1..n : i # j => g[i] # g[j]}}

\* C20: get_problem_points returns exactly the union of the landmarks of the
\* indices whose flag is False, each landmark at most once, whatever the order
\* of the dict's entries, and an empty list when every flag is True.
C20_ProblemPointsAreUnionOfInvalid ==
    problem_points # NoProblemPoints =>
        LET r == problem_points.value
        IN  /\ {r[i] : i \in 1..Len(r)} = InvalidLandmarks
            /\ \A i, j \in 1..Len(r) : i # j => r[i] # r[j]
            /\ \A q \in Reorderings : get_problem_points(q) = r
            /\ (\A i \in 1..Len(validity) : validity[i].is_valid) => r = <<>>

\* CI and HI both invalid (they share landmarks 4 and 6), HI entered first,
\* DsA valid: five landmarks, each once.
C20_Witness ==
    /\ problem_points # NoProblemPoints
    /\ Len(validity) = 3
    /\ validity[1] = [name |-> "HI", is_valid |-> FALSE]
    /\ validity[2] = [name |-> "CI", is_valid |-> FALSE]
    /\ validity[3] = [name |-> "DsA", is_valid |-> TRUE]
    /\ problem_points.value = <<2, 3, 4, 5, 6>>

\* Every flag True on a full dict: nothing is marked.
C20_WitnessAllValid ==
    /\ problem_points # NoProblemPoints
    /\ Len(validity) = 3
    /\ \A i \in 1..3 : validity[i].is_valid
    /\ problem_points.value = <<>>


----------------------------------------------------------------------------
(* Colony statistics of an image (ui/analysis_widget.py, the part of       *)
(* calculate_analysis_results and update_statistics that reads the wings). *)
(* Means are exact rationals in units of 10^-3; a coefficient of variation *)
(* is truncated to a multiple of 0.5 percent, which the thresholds 6.5,    *)
(* 7.5, 12.5 and 20 cannot tell from the exact value.  alpatov_pct, a      *)
(* function of the same CI values, is not carried.                         *)

\* analyze_all_wings writing the converted coordinates back into the wing
analyze_all_wings_StoresConverted(image) ==
    [i \in 1..Len(image.wings) |->
        [image.wings[i] EXCEPT
            !.analysis = WingAnalyze(image.wings[i], image.height),
            !.points = [k \in 1..Len(@) |-> Pt(@[k].x, image.height - @[k].y)]]]

\* ImageData.analyze_all_wings
analyze_all_wings(image) ==
    [i \in 1..Len(image.wings) |->
        [image.wings[i] EXCEPT !.analysis = WingAnalyze(image.wings[i], image.height)]]

\* `w.analysis and ...`: a WingAnalysis object is truthy, None is not
HasAnalysis(w) == w.analysis # NoneAnalysis

\* ci_values = [w.analysis.CI for w in wings if w.analysis and w.analysis.CI > 0]
CiValues(wings) ==
    LET sel == SelectSeq(wings, LAMBDA w : HasAnalysis(w) /\ w.analysis.CI > 0)
    IN  [i \in 1..Len(sel) |-> sel[i].analysis.CI]

\* dsa_values = [w.analysis.DsA for w in wings if w.analysis]
DsaValues(wings) ==
    LET sel == SelectSeq(wings, HasAnalysis)
    IN  [i \in 1..Len(sel) |-> sel[i].analysis.DsA]

\* hi_values = [w.analysis.HI for w in wings if w.analysis and w.analysis.HI > 0]
HiValues(wings) ==
    LET sel == SelectSeq(wings, LAMBDA w : HasAnalysis(w) /\ w.analysis.HI > 0)
    IN  [i \in 1..Len(sel) |-> sel[i].analysis.HI]

\* the wings with w.analysis and w.analysis.is_identified
IdentifiedWings(wings) ==
    SelectSeq(wings, LAMBDA w : HasAnalysis(w) /\ w.analysis.is_identified)

\* breed_counts: for every breed of the table, the wings whose breeds list holds it
BreedCounts(wings) ==
    [b \in DOMAIN BREEDS |->
        Cardinality({i \in 1..Len(wings) :
                        /\ HasAnalysis(wings[i])
                        /\ \E j \in 1..Len(wings[i].analysis.breeds) :
                              wings[i].analysis.breeds[j] = b})]

\* the last key, in the dict's order, that carries the largest count
MaxBreed_LastKey(breed_counts) ==
    LET top == CHOOSE c \in {breed_counts[b] : b \in DOMAIN breed_counts} :
                   \A b \in DOMAIN breed_counts : breed_counts[b] <= c
        i   == CHOOSE k \in 1..Len(BreedOrder) :
                   /\ breed_counts[BreedOrder[k]] = top
                   /\ \A j \in (k + 1)..Len(BreedOrder) : breed_counts[BreedOrder[j]] # top
    IN  BreedOrder[i]

\* max(breed_counts, key=breed_counts.get): the first key, in the dict's order,
\* that carries the largest count
MaxBreed(breed_counts) ==
    LET top == CHOOSE c \in {breed_counts[b] : b \in DOMAIN breed_counts} :
                   \A b \in DOMAIN breed_counts : breed_counts[b] <= c
        i   == CHOOSE k \in 1..Len(BreedOrder) :
                   /\ breed_counts[BreedOrder[k]] = top
                   /\ \A j \in 1..(k - 1) : breed_counts[BreedOrder[j]] # top
    IN  BreedOrder[i]

\* np.mean(values) if values else 0
MeanOf(vals) ==
    IF Len(vals) = 0 THEN [num |-> 0, den |-> 1] ELSE Ratio(SumSeq(vals), Len(vals))

\* floor(x * f1 * f2 * ... / y), one factor at a time: q + r / y is the running quotient
RECURSIVE LongDiv(_, _, _, _)
LongDiv(q, r, y, factors) ==
    IF factors = <<>> THEN q
    ELSE LET f == Head(factors)
         IN  LongDiv(q * f + (r * f) \div y, (r * f) % y, y, Tail(factors))

\* 40000 = 2^6 * 5^4
Factors40000 == <<2, 2, 2, 2, 2, 2, 5, 5, 5, 5>>

\* cv = 100 * std / abs(mean) if mean != 0 else 0, std = np.std(values, ddof=1) for
\* more than one value, else 0.  cv^2 = 10^4 * n * num / ((n - 1) * sum^2) with
\* num = n * sum(u^2) - sum(u)^2, u = v - values[0]; the result is
\* floor(2 * cv) / 2 in units of 10^-3 percent.
CvOf(vals) ==
    LET n == Len(vals)
        S == SumSeq(vals)
    IN  IF n <= 1 \/ S = 0 THEN 0
        ELSE LET su  == S - n * vals[1]
                 num == n * SumSq(vals, vals[1]) - su * su
                 x   == n * num
                 y   == (n - 1) * S * S
             IN  500 * ISqrt(LongDiv(x \div y, x % y, y, Factors40000))

\* product of two fractions in lowest terms, reduced across before multiplying
MulRatio(a, b) ==
    LET g1 == GCD(a.num, b.den)
        g2 == GCD(b.num, a.den)
    IN  [num |-> (a.num \div g1) * (b.num \div g2), den |-> (a.den \div g2) * (b.den \div g1)]

\* the float returned by calculate_breed_probability as one fraction
RationalOf(prob) ==
    IF prob = ZeroProbability THEN [num |-> 0, den |-> 1]
    ELSE MulRatio(MulRatio(prob.CI, prob.DsA), prob.HI)

\* the statistics once the value lists, the identified wings, the breed counts
\* and the probability of the dominant breed are known
StatisticsRecord(wings, ci_values, dsa_values, hi_values, known, breed_counts, max_breed, prob) ==
    [total |-> Len(wings), identified |-> Len(known),
     breed_counts |-> breed_counts, max_breed |-> max_breed,
     mean_ci |-> MeanOf(ci_values), mean_dsa |-> MeanOf(dsa_values),
     mean_hi |-> MeanOf(hi_values),
     cv_ci |-> CvOf(ci_values), cv_hi |-> CvOf(hi_values),
     probability |-> prob, prob |-> RationalOf(prob),
     ci_hyb  |-> calculate_hybridization_score(ci_values, max_breed, "CI"),
     dsa_hyb |-> calculate_hybridization_score(dsa_values, max_breed, "DsA"),
     hi_hyb  |-> calculate_hybridization_score(hi_values, max_breed, "HI")]

\* everything the two aggregators compute from the analysed wings before scoring
ImageStatistics(wings) ==
    Only(UNION {
        {StatisticsRecord(wings, ci_values, dsa_values, hi_values, known, breed_counts,
                          MaxBreed(breed_counts), prob) :
            prob \in {calculate_breed_probability(CiValues(known), DsaValues(known),
                                                  HiValues(known), MaxBreed(breed_counts))}} :
        ci_values \in {CiValues(wings)}, dsa_values \in {DsaValues(wings)},
        hi_values \in {HiValues(wings)}, known \in {IdentifiedWings(wings)},
        breed_counts \in {BreedCounts(wings)}})

\* the entries written to image_data.analysis_results; "-" is the dash the
\* source stores when no wing matched a breed
StoreResults(st, scores) ==
    [stored |-> TRUE, total |-> st.total, identified |-> st.identified,
     breed_match_pct |-> scores.breed_match_pct,
     mean_ci |-> st.mean_ci, mean_dsa |-> st.mean_dsa, mean_hi |-> st.mean_hi,
     breed |-> IF st.breed_counts[st.max_breed] > 0 THEN st.max_breed ELSE "-",
     score |-> scores.score]

\* AnalysisWidget.calculate_analysis_results(image_data): the image afterwards
AnalysisWidget_calculate_analysis_results(image_data) ==
    IF Len(image_data.wings) = 0 THEN image_data
    ELSE Only(UNION {
            {[image_data EXCEPT !.wings = wings,
                                !.analysis_results =
                                    StoreResults(st, calculate_analysis_results(st))] :
                st \in {ImageStatistics(wings)}} :
            wings \in {analyze_all_wings(image_data)}})

\* AnalysisWidget.update_statistics(image_data): the image afterwards
AnalysisWidget_update_statistics(image_data) ==
    IF Len(image_data.wings) = 0 THEN image_data
    ELSE Only(UNION {
            {[image_data EXCEPT !.wings = wings,
                                !.analysis_results = StoreResults(st, update_statistics(st))] :
                st \in {ImageStatistics(wings)}} :
            wings \in {analyze_all_wings(image_data)}})

----------------------------------------------------------------------------
(* Editor specification (ui/main_window.py): one image is selected; wings  *)
(* are digitised by clicks, created as empty bounding boxes, edited,       *)
(* deleted or replaced by detection results.  Each action is one handler   *)
(* of the main window, run to its end.  Landmark and wing numbers are      *)
(* 1-based here.  single_wing_mode keeps its initial value False.          *)

MaxWings == 2

NUM_POINTS == 8

\* a wing in screen coordinates whose indices lie in Mellifera's ranges
Landmarks == <<Pt(0, 3), Pt(32, 5), Pt(13, 5), Pt(4, 5), Pt(14, 11), Pt(17, 14), Pt(20, 14), Pt(10, 19)>>

\* positions of the k-th click
ClickCand(k) == {Landmarks[k]}

\* (landmark, new position) of a drag: the wing stays inside Mellifera's ranges
\* with another CI and HI
MoveTargets == {<<5, Pt(13, 12)>>}

\* (landmark, model) of a point-model radio button
ModelChoices == {<<5, "yolo">>}

\* a wing as the detection worker builds it: points and points_stage2 are the
\* final points, points_yolo the raw detector output, no stage-1 model loaded
DetectedWing ==
    LET final == [Landmarks EXCEPT ![8] = Pt(10, 20)]
    IN  [NewWing(final) EXCEPT !.points_yolo = [final EXCEPT ![5] = Pt(13, 12)],
                               !.points_stage2 = final]

\* results[path] for the selected image
DetectionResults == {<<>>, <<DetectedWing>>}

InitEditor ==
    /\ EditorIdle
    /\ RestEditorIdle

\* Wing.get_center, both coordinates multiplied by len(self.points)
get_center(wing) ==
    IF Len(wing.points) = 0 THEN <<0, 0>>
    ELSE <<SumSeq([i \in 1..Len(wing.points) |-> wing.points[i].x]),
           SumSeq([i \in 1..Len(wing.points) |-> wing.points[i].y])>>

\* a[0] < b[0] or (a[0] == b[0] and a[1] < b[1]): the order of two key tuples
LexLess(a, b) == a[1] < b[1] \/ (a[1] = b[1] /\ a[2] < b[2])

\* list.sort(key=...): the positions of the list in ascending order of their
\* keys, equal keys in their former order
StableOrder(keys) ==
    CHOOSE p \in [1..Len(keys) -> 1..Len(keys)] :
        \A i, j \in 1..Len(keys) :
            i < j => /\ p[i] # p[j]
                     /\ ~LexLess(keys[p[j]], keys[p[i]])
                     /\ (keys[p[i]] = keys[p[j]] => p[i] < p[j])

\* row_tolerance = 100, multiplied by the number of points of a wing
row_tolerance == 100 * NUM_POINTS

\* the row number of every wing of the list sorted by (cy, cx): a wing opens a
\* new row when its cy is row_tolerance or more away from the cy of the wing
\* that opened the current row
RECURSIVE RowsOf(_, _, _, _)
RowsOf(centers, i, current_y, row) ==
    IF i > Len(centers) THEN <<>>
    ELSE IF centers[i][2] - current_y < row_tolerance /\ current_y - centers[i][2] < row_tolerance
         THEN <<row>> \o RowsOf(centers, i + 1, current_y, row)
         ELSE <<row + 1>> \o RowsOf(centers, i + 1, centers[i][2], row + 1)

\* MainWindow._sort_wings_internal: the wings by rows from the top, every row
\* from the left
sort_wings_internal(wings) ==
    IF Len(wings) = 0 THEN wings
    ELSE Only(UNION UNION {
            {{[i \in 1..Len(wings) |-> wings[first[second[i]]]] :
                second \in {StableOrder([i \in 1..Len(wings) |->
                                           <<rows[i], get_center(wings[first[i]])[1]>>])}} :
              rows \in {RowsOf([i \in 1..Len(wings) |-> get_center(wings[first[i]])], 1,
                               get_center(wings[first[1]])[2], 1)}} :
            first \in {StableOrder([i \in 1..Len(wings) |->
                                      <<get_center(wings[i])[2], get_center(wings[i])[1]>>])}})

\* MainWindow._update_display: the scene is redrawn from the sorted wings
update_display(image) == [image EXCEPT !.wings = sort_wings_internal(image.wings)]

\* the image after self.current_image.analyze_all_wings()
Analysed(image) == [image EXCEPT !.wings = analyze_all_wings(image)]

\* MainWindow._update_analysis_widget with single_wing_mode False
update_analysis_widget(image) == AnalysisWidget_update_statistics(image)

\* largest number of scene items kept in temp_add_items (the list is emptied
\* by _cancel_adding unless the removal of an item raises)
MaxItems == 8

\* scene.removeItem(item) for an item the scene has destroyed: the wrapper
\* of a deleted C++ object is rejected with a RuntimeError or passed on,
\* depending on the binding; a live item is removed
RemoveOutcomes(temp_items) ==
    IF \E i \in 1..Len(temp_items) : temp_items[i] = "deleted" THEN {"raises", "returns"} ELSE {"returns"}

\* MainWindow._cancel_adding after adding_points.clear(): the loop over
\* temp_add_items and temp_add_items.clear(), which an exception skips
cancel_adding(temp_items, outcome) == IF outcome = "raises" THEN temp_items ELSE <<>>

\* MainWindow._set_edit_mode(mode)
SetEditMode ==
    /\ \E mode \in {"VIEW", "ADD"} :
          /\ edit_mode' = mode
          /\ IF mode # "ADD"
             THEN /\ adding_points' = <<>>
                  /\ \E outcome \in RemoveOutcomes(temp_add_items) :
                        temp_add_items' = cancel_adding(temp_add_items, outcome)
             ELSE UNCHANGED <<adding_points, temp_add_items>>
    /\ UNCHANGED <<current_image, images, current_path, restFolder>>

\* MainWindow._on_scene_clicked(x, y)
OnSceneClicked ==
    /\ edit_mode = "ADD"
    /\ Len(current_image.wings) < MaxWings
    /\ Len(temp_add_items) < MaxItems
    /\ \E p \in ClickCand(Len(adding_points) + 1) :
          LET clicked == Append(adding_points, p)
          IN  IF Len(clicked) = NUM_POINTS
              THEN LET wing     == NewWing(clicked)
                       analysed == [wing EXCEPT !.analysis = WingAnalyze(wing, current_image.height)]
                       appended == [current_image EXCEPT !.wings = Append(@, analysed)]
                   IN  /\ adding_points' = <<>>
                       /\ \E outcome \in RemoveOutcomes(Append(temp_add_items, "live")) :
                             /\ temp_add_items' = cancel_adding(Append(temp_add_items, "live"), outcome)
                             /\ IF outcome = "raises"
                                THEN current_image' = appended
                                ELSE \E done \in {update_display(appended)} :
                                         current_image' = update_analysis_widget(done)
              ELSE /\ adding_points' = clicked
                   /\ temp_add_items' = Append(temp_add_items, "live")
                   /\ UNCHANGED current_image
    /\ UNCHANGED <<edit_mode, images, current_path, restFolder>>

\* MainWindow._on_point_moved(wing_idx, point_idx, x, y)
OnPointMoved ==
    /\ \E wing_no \in 1..Len(current_image.wings), t \in MoveTargets :
          LET wing  == current_image.wings[wing_no]
              moved == [wing EXCEPT !.points[t[1]] = t[2], !.point_sources[t[1]] = "manual"]
              image == [current_image EXCEPT !.wings[wing_no] = moved]
          IN  /\ t[1] <= Len(wing.points)
              /\ \E done \in {update_display(Analysed(image))} :
                    current_image' = update_analysis_widget(done)
    /\ UNCHANGED <<adding_points, edit_mode, restEditor>>

\* MainWindow._on_bbox_created(x1, y1, x2, y2)
OnBboxCreated ==
    /\ Len(current_image.wings) < MaxWings
    /\ current_image' =
          update_display([current_image EXCEPT
                             !.wings = Append(@, NewWing([i \in 1..8 |-> Pt(0, 0)]))])
    /\ UNCHANGED <<adding_points, edit_mode, restEditor>>

\* MainWindow._on_point_delete(wing_idx, -1), confirmed: the whole wing is deleted
OnPointDelete ==
    /\ \E wing_no \in 1..Len(current_image.wings) :
          LET kept  == [i \in 1..(Len(current_image.wings) - 1) |->
                           IF i < wing_no THEN current_image.wings[i]
                           ELSE current_image.wings[i + 1]]
              image == [current_image EXCEPT !.wings = kept]
          IN  \E done \in {update_display(Analysed(image))} :
                 current_image' = update_analysis_widget(done)
    /\ UNCHANGED <<adding_points, edit_mode, restEditor>>

\* MainWindow._on_point_model_changed(button)
OnPointModelChanged ==
    /\ \E c \in ModelChoices :
          LET image == [current_image EXCEPT !.wings =
                           [i \in 1..Len(current_image.wings) |->
                               IF c[1] <= Len(current_image.wings[i].point_sources)
                               THEN [current_image.wings[i] EXCEPT !.point_sources[c[1]] = c[2]]
                               ELSE current_image.wings[i]]]
          IN  \E done \in {update_display(Analysed(image))} :
                 current_image' = update_analysis_widget(done)
    /\ UNCHANGED <<adding_points, edit_mode, restEditor>>

\* MainWindow._on_finished(results), results holding the selected image
OnFinished ==
    /\ \E wings \in DetectionResults :
          LET image == [current_image EXCEPT !.wings = wings]
          IN  \E done \in {update_display(Analysed(image))} :
                 current_image' = update_analysis_widget(done)
    /\ UNCHANGED <<adding_points, edit_mode, restEditor>>

\* MainWindow._refresh_batch_table
RefreshBatchTable ==
    /\ current_image' =
          IF Len(current_image.wings) > 0
          THEN AnalysisWidget_calculate_analysis_results(current_image)
          ELSE current_image
    /\ UNCHANGED <<adding_points, edit_mode, restEditor>>

NextEditor ==
    \/ SetEditMode
    \/ OnSceneClicked
    \/ OnPointMoved
    \/ OnBboxCreated
    \/ OnPointDelete
    \/ OnPointModelChanged
    \/ OnFinished
    \/ RefreshBatchTable

SpecEditor == InitEditor /\ [][NextEditor]_vars

----------------------------------------------------------------------------
(* Stored results against the current wings                                 *)

\* the results either aggregator would store for the current image
FreshResults ==
    {AnalysisWidget_update_statistics(current_image).analysis_results,
     AnalysisWidget_calculate_analysis_results(current_image).analysis_results}

\* the stored total, identified and score are those of `fresh`
SameSummary(stored, fresh) ==
    /\ stored.stored
    /\ fresh.stored
    /\ stored.total = fresh.total
    /\ stored.identified = fresh.identified
    /\ stored.score = fresh.score

\* C16: once a handler has finished, the stored total, identified and score of
\* an image that has wings are the ones derived from scratch from its current
\* wings (by either aggregator)
C16_StoredResultsAreFresh ==
    Len(current_image.wings) > 0 =>
        \E fresh \in FreshResults : SameSummary(current_image.analysis_results, fresh)

\* an image without wings carries no results of an earlier sample
C16_NoResultsWithoutWings ==
    Len(current_image.wings) = 0 => ~current_image.analysis_results.stored

\* the values of an index over the analysed wings where it is not zero
NonzeroValues(wings, index_name) ==
    LET sel == SelectSeq(wings, LAMBDA w : HasAnalysis(w) /\ w.analysis[index_name] # 0)
    IN  [i \in 1..Len(sel) |-> sel[i].analysis[index_name]]

\* the three means of `reported` are the means over the nonzero values
MeansSkipZeros(reported) ==
    /\ reported.analysis_results.mean_ci = MeanOf(NonzeroValues(reported.wings, "CI"))
    /\ reported.analysis_results.mean_dsa = MeanOf(NonzeroValues(reported.wings, "DsA"))
    /\ reported.analysis_results.mean_hi = MeanOf(NonzeroValues(reported.wings, "HI"))

\* C17: the mean CI, mean DsA and mean HI either aggregator reports for the
\* current image are the means over the wings whose value of that index is
\* not zero
C17_MeansOverNonzeroValues ==
    Len(current_image.wings) > 0 =>
        /\ MeansSkipZeros(AnalysisWidget_update_statistics(current_image))
        /\ MeansSkipZeros(AnalysisWidget_calculate_analysis_results(current_image))

\* the same for the two indices that are filtered with `> 0`
C17_CiAndHiMeansSkipZeros ==
    Len(current_image.wings) > 0 =>
        \A reported \in {AnalysisWidget_update_statistics(current_image),
                          AnalysisWidget_calculate_analysis_results(current_image)} :
            /\ reported.analysis_results.mean_ci = MeanOf(NonzeroValues(reported.wings, "CI"))
            /\ reported.analysis_results.mean_hi = MeanOf(NonzeroValues(reported.wings, "HI"))

----------------------------------------------------------------------------
(* The pipeline run twice                                                   *)

\* the current image after one run of calculate_analysis_results
RunOnce == AnalysisWidget_calculate_analysis_results(current_image)

\* the current image after a second run on the result of the first
RunTwice == AnalysisWidget_calculate_analysis_results(RunOnce)

\* C14: a second run of the pipeline (analysis of every wing, then
\* calculate_analysis_results) on the unchanged wings leaves the analysis of
\* every wing and the stored total, identified, breed match, means, breed and
\* score as the first run left them
C14_SecondRunStoresTheSame ==
    /\ RunTwice.wings = RunOnce.wings
    /\ RunTwice.analysis_results = RunOnce.analysis_results

\* two wings, one of them never analysed, and stored results of an earlier
\* sample: the first run changes both the analyses and the results
C14_Witness ==
    /\ Len(current_image.wings) = 2
    /\ \E i \in 1..2 : ~HasAnalysis(current_image.wings[i])
    /\ current_image.analysis_results.stored
    /\ RunOnce.analysis_results # current_image.analysis_results
    /\ RunOnce.analysis_results.identified = 1
    /\ RunOnce.analysis_results.score > 0

----------------------------------------------------------------------------
(* Order specification: the identified wings of a colony are collected one  *)
(* by one (ui/analysis_widget.py, ci_identified, dsa_identified and         *)
(* hi_identified), then the probability of a breed is computed.  Three      *)
(* equal CI values and a fourth one at an odd number of thousandths from    *)
(* them have a sample deviation of exactly half their distance.             *)

MaxSample == 4

\* (CI, DsA, HI) of an identified wing; the first and the third one together
\* have all three family intervals inside Mellifera's ranges
SampleWings == {<<1800, -4000, 700>>, <<2173, -3000, 800>>, <<1810, -3990, 710>>}

SampleBreeds == {"Mellifera", "Caucasica"}

InitOrder ==
    /\ \E b \in SampleBreeds : family = [breed |-> b, ci |-> <<>>, dsa |-> <<>>, hi |-> <<>>]
    /\ probability = NoProbability
    /\ RestProbIdle

\* one pass of the loop `for w in wings` over an identified wing
AddIdentifiedWing ==
    /\ probability = NoProbability
    /\ Len(family.dsa) < MaxSample
    /\ \E w \in SampleWings :
          family' = [family EXCEPT
                        !.ci  = IF w[1] > 0 THEN Append(@, w[1]) ELSE @,
                        !.dsa = Append(@, w[2]),
                        !.hi  = IF w[3] > 0 THEN Append(@, w[3]) ELSE @]
    /\ UNCHANGED <<probability, restProb>>

\* prob = calculate_breed_probability(ci_identified, dsa_identified,
\* hi_identified, breed_name)
ProbabilityOfSample ==
    /\ probability = NoProbability
    /\ \E prob \in calculate_breed_probability_Outcomes(family.ci, family.dsa, family.hi,
                                                          family.breed) :
          probability' = prob
    /\ UNCHANGED <<family, restProb>>

NextOrder ==
    \/ AddIdentifiedWing
    \/ ProbabilityOfSample

SpecOrder == InitOrder /\ [][NextOrder]_vars

\* the orders of the wings of the sample
SampleOrders ==
    LET n == Len(family.dsa)
    IN  {[ci  |-> [i \in 1..n |-> family.ci[f[i]]],
          dsa |-> [i \in 1..n |-> family.dsa[f[i]]],
          hi  |-> [i \in 1..n |-> family.hi[f[i]]]] :
            f \in {g \in [1..n -> 1..n] : \A i, j \in 1..n : i # j => g[i] # g[j]}}

\* C15: the probability computed for a sample is the one
\* calculate_breed_probability returns for every order of its wings
C15_ProbabilityIndependentOfOrder ==
    probability # NoProbability =>
        \A o \in SampleOrders :
            calculate_breed_probability_Outcomes(o.ci, o.dsa, o.hi, family.breed) = {probability}

\* away from a rounding tie the probability is the same for every order
C15_IndependentAwayFromTies ==
    (probability # NoProbability /\ ~RoundingTie(family.ci)) =>
        \A o \in SampleOrders :
            calculate_breed_probability_Outcomes(o.ci, o.dsa, o.hi, family.breed) = {probability}

\* probability, hybridization scores, dominant breed and total score of a list
\* of analysed wings
ColonyResults(wings) ==
    Only({[probability |-> st.probability,
           ci_hyb |-> st.ci_hyb, dsa_hyb |-> st.dsa_hyb, hi_hyb |-> st.hi_hyb,
           max_breed |-> st.max_breed,
           score |-> calculate_analysis_results(st).score,
           shown |-> update_statistics(st).score] : st \in {ImageStatistics(wings)}})

\* the wings of the editor's image, at most MaxWings, never meet a rounding
\* tie: their colony results are the same for every order of the wings
C15_EditorSampleOrderIndependent ==
    LET wings == analyze_all_wings(current_image)
        n     == Len(wings)
        known == IdentifiedWings(wings)
    IN  n > 0 =>
        /\ ~RoundingTie(CiValues(known))
        /\ ~RoundingTie(DsaValues(known))
        /\ ~RoundingTie(HiValues(known))
        /\ \A f \in {g \in [1..n -> 1..n] : \A i, j \in 1..n : i # j => g[i] # g[j]} :
              ColonyResults([i \in 1..n |-> wings[f[i]]]) = ColonyResults(wings)

----------------------------------------------------------------------------
(* The critical boundary of the hybridization score *)

\* C21: when at least one value lies beyond the critical boundary and no
\* histogram bin contains the boundary, the score comes from the share of
\* values beyond the boundary alone: more than 2% gives 0, more than 1%
\* gives 1, anything else 2; it is never 3.
C21_OutsideHistogramUsesShareBeyond ==
    hyb.done =>
        LET h == HStats IN
        (h.histogram /\ ~h.inrange /\ h.beyond >= 1) =>
            /\ hyb.score = IF 100 * h.beyond > 2 * h.total THEN 0
                           ELSE IF 100 * h.beyond > h.total THEN 1
                           ELSE 2
            /\ hyb.score # 3

\* C21 witness: every value of a Mellifera CI sample lies above 2.160, so the
\* histogram starts beyond the boundary; the score is 0
C21_Witness ==
    /\ hyb.done
    /\ breed_name = "Mellifera" /\ index_type = "CI"
    /\ LET h == HStats IN h.histogram /\ ~h.inrange /\ h.beyond >= 1
    /\ MinSeq(NonZero(values)) > 2160
    /\ hyb.score = 0

\* with the boundary outside the histogram and a value beyond it, every
\* value is beyond it
C21_OutsideMeansAllBeyond ==
    hyb.done =>
        LET h == HStats IN
        (h.histogram /\ ~h.inrange /\ h.beyond >= 1) => h.beyond = h.total

(* Samples around the critical boundary: Mellifera CI values (bounds 0.760  *)
(* and 2.160) below, between and above the bounds, among them samples      *)
(* whose mean is exactly 1.460 and samples with a bin edge on the boundary *)

MaxBoundary == 3

BoundaryGrid == {700, 1500, 1580, 2100, 2160, 2400}

InitBoundary ==
    /\ values = <<>>
    /\ breed_name = "Mellifera"
    /\ index_type = "CI"
    /\ hyb = NoScore
    /\ RestHybIdle

AppendBoundaryValue ==
    /\ ~hyb.done
    /\ Len(values) < MaxBoundary
    /\ \E v \in BoundaryGrid : values' = Append(values, v)
    /\ UNCHANGED <<breed_name, index_type, hyb, restHyb>>

\* calculate_hybridization_score(values, breed_name, index_type), the
\* quantities it worked with kept beside the score
HybridizationRun ==
    /\ ~hyb.done
    /\ \E run \in hybridization_runs(values, breed_name, index_type) :
          hyb' = [done |-> TRUE, score |-> run.score, path |-> run.path,
                  critical_boundary |-> run.critical_boundary, beyond |-> run.beyond,
                  boundary_bin |-> run.boundary_bin,
                  rank2_count |-> run.rank2_count, rank1_count |-> run.rank1_count]
    /\ UNCHANGED <<values, breed_name, index_type, restHyb>>

NextBoundary ==
    \/ AppendBoundaryValue
    \/ HybridizationRun

SpecBoundary == InitBoundary /\ [][NextBoundary]_vars

\* the run chose a critical boundary (the sample has two different nonzero values)
BoundaryChosen == hyb.done /\ hyb.path \in {"none_beyond", "percent", "ranks"}

\* n * |mean - bound| for the nonzero values of the sample
MeanDistance(bound) ==
    Abs(SumSeq(NonZero(values)) - Len(NonZero(values)) * bound)

\* C22: the critical boundary is the breed bound closer to the mean of the
\* filtered values: the minimum if and only if |mean - min| < |mean - max|,
\* otherwise the maximum, so a sample whose mean is equally far from both
\* bounds gets the maximum.
C22_CriticalBoundaryIsCloserBound ==
    BoundaryChosen =>
        hyb.critical_boundary =
            IF MeanDistance(BREED_RANGES[breed_name][index_type][1])
                 < MeanDistance(BREED_RANGES[breed_name][index_type][2])
            THEN BREED_RANGES[breed_name][index_type][1]
            ELSE BREED_RANGES[breed_name][index_type][2]

\* away from an exact tie the rule of C22 is what the code does
C22_CloserBoundAwayFromTies ==
    (BoundaryChosen /\ MeanDistance(BREED_RANGES[breed_name][index_type][1])
                        # MeanDistance(BREED_RANGES[breed_name][index_type][2])) =>
        hyb.critical_boundary =
            IF MeanDistance(BREED_RANGES[breed_name][index_type][1])
                 < MeanDistance(BREED_RANGES[breed_name][index_type][2])
            THEN BREED_RANGES[breed_name][index_type][1]
            ELSE BREED_RANGES[breed_name][index_type][2]

\* the samples of SpecHyb never have their mean halfway between the bounds
C22_NoTieInColonySamples ==
    (breed_name \in DOMAIN BREED_RANGES /\ Len(NonZero(values)) > 0) =>
        MeanDistance(BREED_RANGES[breed_name][index_type][1])
            # MeanDistance(BREED_RANGES[breed_name][index_type][2])

\* some nonzero value lies strictly outside the chosen boundary, outwards
SomeBeyondChosen ==
    \E i \in 1..Len(values) :
        /\ values[i] # 0
        /\ IF hyb.critical_boundary = BREED_RANGES[breed_name][index_type][1]
           THEN values[i] < hyb.critical_boundary
           ELSE values[i] > hyb.critical_boundary

\* C23: when no filtered value lies strictly beyond the critical boundary in
\* the outward direction, the score is 3, also when values lie outside the
\* breed's interval on the opposite side.
C23_NoneBeyondScoresThree ==
    (BoundaryChosen /\ ~SomeBeyondChosen) => hyb.score = 3

\* C23 witness: the boundary is the maximum 2.160, no value exceeds it, the
\* value 0.700 lies below the minimum 0.760, and the score is 3
C23_Witness ==
    /\ BoundaryChosen
    /\ hyb.critical_boundary = BREED_RANGES[breed_name][index_type][2]
    /\ ~SomeBeyondChosen
    /\ \E i \in 1..Len(values) :
          values[i] # 0 /\ values[i] < BREED_RANGES[breed_name][index_type][1]
    /\ hyb.score = 3

\* C25: every wing counted in rank 1 or rank 2 lies strictly beyond the
\* critical boundary, so the two rank counts together never exceed the
\* number of values beyond the boundary, also when the boundary coincides
\* with a bin edge or with a sample value.
C25_RankedWingsLieBeyond ==
    (hyb.done /\ hyb.path = "ranks") =>
        hyb.rank1_count + hyb.rank2_count <= hyb.beyond

\* on the lower side the claim of C25 holds: the bins counted end at or
\* below the boundary
C25_LowerSideRankedLieBeyond ==
    (hyb.done /\ hyb.path = "ranks"
     /\ hyb.critical_boundary = BREED_RANGES[breed_name][index_type][1]) =>
        hyb.rank1_count + hyb.rank2_count <= hyb.beyond

\* the rank counts exceed the number of values beyond the boundary by no
\* more than the number of values equal to the boundary
C25_ExcessOnlyFromValuesOnBoundary ==
    (hyb.done /\ hyb.path = "ranks") =>
        hyb.rank1_count + hyb.rank2_count
            <= hyb.beyond + Cardinality({i \in 1..Len(values) : values[i] = hyb.critical_boundary})

----------------------------------------------------------------------------
(* The batch table *)

\* C24: update_batch_results does not use the legacy _calc_score for an
\* image with stored analysis results: the row then shows the stored total
\* score (and the stored counts); the legacy formula runs only for an image
\* without stored results.
C24_StoredResultsAreShown ==
    [][(~batch_results.shown /\ batch_results'.shown) =>
          /\ (scored.op # "none" =>
                 /\ ~batch_results'.legacy
                 /\ batch_results'.score = scored.score
                 /\ batch_results'.total = scored.total
                 /\ batch_results'.identified = scored.identified)
          /\ (batch_results'.legacy => scored.op = "none")]_vars

\* C24 witness: results are stored, the legacy formula would give another
\* score for the same statistics, and the row shows the stored one
C24_Witness ==
    /\ batch_results.shown
    /\ scored.op = "update_statistics"
    /\ calc_score(colony.total, colony.identified, colony.mean_ci, colony.mean_dsa,
                  colony.mean_hi, colony.cv_ci, colony.cv_hi).score # scored.score
    /\ batch_results.score = scored.score
    /\ ~batch_results.legacy

\* the legacy branch is taken as well: a row for an image without stored results
C24_LegacyForImagesWithoutResults ==
    ~(batch_results.shown /\ batch_results.legacy /\ scored.op = "none")

----------------------------------------------------------------------------
(* Range of the breed probability *)

\* the returned probability is 0, or a product of three fractions each
\* greater than 0 and at most 1
ProbabilityInUnitInterval ==
    \/ probability = ZeroProbability
    \/ /\ probability.op = "returned" /\ probability.value = "ratio"
       /\ \A k \in {"CI", "DsA", "HI"} :
             /\ probability[k].den > 0
             /\ probability[k].num > 0
             /\ probability[k].num <= probability[k].den

\* natural numbers beyond 32 bits as lists of base-100 digits, lowest first
RECURSIVE BigOf(_)
BigOf(n) == IF n < 100 THEN <<n>> ELSE <<n % 100>> \o BigOf(n \div 100)

\* big * m + carry for 0 <= m < 10^7
RECURSIVE BigTimes(_, _, _)
BigTimes(big, m, carry) ==
    IF big = <<>> THEN (IF carry = 0 THEN <<>> ELSE BigOf(carry))
    ELSE <<(Head(big) * m + carry) % 100>>
             \o BigTimes(Tail(big), m, (Head(big) * m + carry) \div 100)

\* the digits without leading zeros
RECURSIVE BigTrim(_)
BigTrim(big) ==
    IF big = <<>> THEN <<>>
    ELSE IF big[Len(big)] = 0 THEN BigTrim(SubSeq(big, 1, Len(big) - 1))
    ELSE big

\* a <= b for trimmed digit lists
RECURSIVE BigLeqTrimmed(_, _)
BigLeqTrimmed(a, b) ==
    IF Len(a) # Len(b) THEN Len(a) < Len(b)
    ELSE IF a = <<>> THEN TRUE
    ELSE IF a[Len(a)] # b[Len(b)] THEN a[Len(a)] < b[Len(b)]
    ELSE BigLeqTrimmed(SubSeq(a, 1, Len(a) - 1), SubSeq(b, 1, Len(b) - 1))

BigLeq(a, b) == BigLeqTrimmed(BigTrim(a), BigTrim(b))

\* m * x * y * z
BigProduct(m, x, y, z) == BigTimes(BigTimes(BigTimes(BigOf(m), x, 0), y, 0), z, 0)

\* j * den <= m * num for the returned probability num / den (a product of
\* three fractions, or 0)
ProbabilityAtLeast(j, m) ==
    IF probability = ZeroProbability THEN j = 0
    ELSE BigLeq(BigProduct(j, probability.CI.den, probability.DsA.den, probability.HI.den),
                BigProduct(m, probability.CI.num, probability.DsA.num, probability.HI.num))

\* the largest j in 0..20 with j <= 10 * probability, i.e. floor(id_pct / 10) up to 20
TenthsOfProbability == Cardinality({j \in 1..20 : ProbabilityAtLeast(j, 10)})

\* m * num <= j * den
ProbabilityAtMost(j, m) ==
    IF probability = ZeroProbability THEN TRUE
    ELSE BigLeq(BigProduct(m, probability.CI.num, probability.DsA.num, probability.HI.num),
                BigProduct(j, probability.CI.den, probability.DsA.den, probability.HI.den))

\* breed_score from id_pct = 100 * probability: diff = (id_pct - 100) / 10 is
\* rounded up if diff >= 0 and down otherwise, then max(0, 5 + roundup_value)
BreedScoreOfProbability ==
    Only({Max2(0, 5 + (IF tenths >= 10 /\ ~ProbabilityAtMost(tenths, 10)
                       THEN tenths - 9
                       ELSE tenths - 10)) :
            tenths \in {TenthsOfProbability}})

\* C26: for a known breed calculate_breed_probability returns a value in
\* [0, 1]; the breed-match percentage 100 * probability is at most 100 and
\* the breed-probability score computed from it is an integer from 0 to 5.
C26_ProbabilityBetweenZeroAndOne ==
    (probability # NoProbability /\ KnownBreed) =>
        /\ ProbabilityInUnitInterval
        /\ ProbabilityAtLeast(0, 100)
        /\ ~ProbabilityAtLeast(101, 100)
        /\ BreedScoreOfProbability \in 0..5

\* C26 witness: the probability is 1 (every family interval lies inside the
\* breed's interval) and the breed score is 5
C26_Witness ==
    /\ probability # NoProbability /\ KnownBreed
    /\ probability # ZeroProbability
    /\ \A k \in {"CI", "DsA", "HI"} : probability[k].num = probability[k].den
    /\ BreedScoreOfProbability = 5

\* a probability strictly between 0 and 1 with a breed score from 1 to 4
C26_PartialProbability ==
    /\ probability # NoProbability /\ KnownBreed
    /\ probability # ZeroProbability
    /\ probability.CI.num < probability.CI.den
    /\ BreedScoreOfProbability \in 1..4

\* where the product fits into 32 bits, the score above is the one the
\* analysis widget computes from the probability as one fraction
C26_ScoreAgreesWithWidget ==
    (probability # NoProbability /\ KnownBreed /\ probability # ZeroProbability
     /\ \A k \in {"CI", "DsA", "HI"} : probability[k].den <= 1000) =>
        BreedScoreOfProbability = BreedScoreRoundup(PctOfProbability(RationalOf(probability)))

----------------------------------------------------------------------------
(* Colony specification: an image of the opened folder comes with the      *)
(* wings of its TPS file (ui/main_window.py, _load_tps_for_image: sources  *)
(* 'gt', analysed before the image's size is known); it is then selected   *)
(* (_load_current_image) or the batch table is refreshed.  The wings match *)
(* different breeds, several breeds or none.                               *)

MaxColony == 3

\* landmark lists differing in landmarks 5 and 8.  With the image's height
\* applied they give, in this order, a wing matching Caucasica, a wing
\* matching Mellifera and Caucasica, and two wings with CI 3.07 and different
\* DsA that match no breed; without it (wings analysed before the image's
\* size is known) the first one matches Caucasica and Ligustica and the
\* others nothing
ColonyWings ==
    { [Landmarks EXCEPT ![5] = Pt(12, 10), ![8] = Pt(12, 19)],
      [Landmarks EXCEPT ![5] = Pt(12, 12), ![8] = Pt(12, 19)],
      [Landmarks EXCEPT ![5] = Pt(10, 8)],
      [Landmarks EXCEPT ![5] = Pt(10, 8), ![8] = Pt(11, 19)] }

\* a wing read from a TPS file: wing.point_sources = ['gt'] * NUM_POINTS
TpsWing(pts) == [NewWing(pts) EXCEPT !.point_sources = [i \in 1..8 |-> "gt"]]

\* ImageData(path) with the wings of its TPS file, analysed; width and
\* height are still 0
InitColony ==
    /\ \E n \in 0..MaxColony :
          \E tps \in [1..n -> ColonyWings] :
              current_image =
                  Analysed([wings |-> [i \in 1..n |-> TpsWing(tps[i])], height |-> 0,
                            analysis_results |-> NoStored])
    /\ adding_points = <<>>
    /\ edit_mode = "VIEW"
    /\ RestEditorIdle

\* the image MainWindow._load_current_image leaves as current_image: the
\* height comes from the pixmap, the wings are analysed, the display is
\* rebuilt (which sorts the wings) and update_statistics stores the results
load_current_image(image) ==
    Only(UNION {
        {update_analysis_widget(done) : done \in {update_display(Analysed(sized))}} :
        sized \in {[image EXCEPT !.height = ImageHeight]}})

\* MainWindow._load_current_image for the image: its height is read from the
\* pixmap, the wings are analysed, the display and the statistics follow
LoadCurrentImage ==
    /\ current_image' = load_current_image(current_image)
    /\ UNCHANGED <<adding_points, edit_mode, restEditor>>

NextColony ==
    \/ LoadCurrentImage
    \/ RefreshBatchTable

SpecColony == InitColony /\ [][NextColony]_vars

\* number of wings of the image whose list of matching breeds holds b
WingsMatching(b) ==
    Cardinality({i \in 1..Len(current_image.wings) :
                    \E j \in 1..Len(current_image.wings[i].analysis.breeds) :
                        current_image.wings[i].analysis.breeds[j] = b})

\* the breed with the most matching wings, the earliest of Mellifera,
\* Caucasica, Ligustica, Carnica among equals
DominantBreed ==
    BreedOrder[CHOOSE k \in 1..4 :
                  /\ \A j \in 1..4 : WingsMatching(BreedOrder[j]) <= WingsMatching(BreedOrder[k])
                  /\ \A j \in 1..(k - 1) : WingsMatching(BreedOrder[j]) < WingsMatching(BreedOrder[k])]

\* the total score of the image's wings with the sub-scores taken for breed b
ScoreAgainst(b) ==
    LET wings == current_image.wings
        known == IdentifiedWings(wings)
    IN  PenaltyNotId(Len(wings), Len(known))
        + BreedScoreRoundup(PctOfProbability(RationalOf(
              calculate_breed_probability(CiValues(known), DsaValues(known), HiValues(known), b))))
        + CiScore(CvOf(CiValues(wings))) + HiScore(CvOf(HiValues(wings)))
        + calculate_hybridization_score(CiValues(wings), b, "CI")
        + calculate_hybridization_score(DsaValues(wings), b, "DsA")
        + calculate_hybridization_score(HiValues(wings), b, "HI")

\* C27: the stored breed is a breed with the largest number of matching
\* wings, the earliest in the order Mellifera, Caucasica, Ligustica, Carnica
\* among equals; when no wing matches any breed the stored breed is the dash
\* and the sub-scores are those computed against Mellifera.
C27_DominantBreedAndDash ==
    current_image.analysis_results.stored =>
        /\ current_image.analysis_results.breed =
              IF WingsMatching(DominantBreed) > 0 THEN DominantBreed ELSE "-"
        /\ current_image.analysis_results.score = ScoreAgainst(DominantBreed)
        /\ (WingsMatching(DominantBreed) = 0 =>
               /\ DominantBreed = "Mellifera"
               /\ current_image.analysis_results.score = ScoreAgainst("Mellifera"))

\* C27 witness: as many wings match Mellifera as Caucasica, at least one and
\* more than match any other breed; the stored breed is Mellifera
C27_Witness ==
    /\ current_image.analysis_results.stored
    /\ WingsMatching("Mellifera") >= 1
    /\ WingsMatching("Mellifera") = WingsMatching("Caucasica")
    /\ current_image.analysis_results.breed = "Mellifera"

\* more wings match Caucasica than Mellifera: the stored breed is Caucasica
C27_LaterBreedWins ==
    /\ current_image.analysis_results.stored
    /\ WingsMatching("Mellifera") >= 1
    /\ WingsMatching("Caucasica") > WingsMatching("Mellifera")
    /\ current_image.analysis_results.breed = "Caucasica"

\* no wing of the image matches a breed, a wing has a nonzero CI, and the
\* score against Mellifera differs from the score against another breed
C27_DashWithMelliferaScores ==
    /\ current_image.analysis_results.stored
    /\ Len(current_image.wings) >= 2
    /\ WingsMatching(DominantBreed) = 0
    /\ current_image.analysis_results.breed = "-"
    /\ \E b \in {"Caucasica", "Ligustica", "Carnica"} : ScoreAgainst(b) # ScoreAgainst("Mellifera")

\* what the batch refresh path and the interactive path store for the current
\* sample
StoredByRefresh == AnalysisWidget_calculate_analysis_results(current_image).analysis_results
StoredByWidget  == AnalysisWidget_update_statistics(current_image).analysis_results

\* C28: for the same wings calculate_analysis_results and update_statistics
\* store the same total, identified count, breed-match percentage, means,
\* dominant breed and total score, and leave the same analysed wings.
C28_BothPathsStoreTheSame ==
    /\ StoredByRefresh = StoredByWidget
    /\ AnalysisWidget_calculate_analysis_results(current_image).wings
          = AnalysisWidget_update_statistics(current_image).wings

\* C28 witness: results stored for a sample of at least two identified wings
\* with a positive breed-match percentage; either path gives them
C28_Witness ==
    /\ current_image.analysis_results.stored
    /\ current_image.analysis_results.identified >= 2
    /\ current_image.analysis_results.breed_match_pct.num > 0
    /\ StoredByRefresh = current_image.analysis_results
    /\ StoredByWidget = current_image.analysis_results

\* a sample of identified and unidentified wings: either path gives what is stored
C28_MixedSample ==
    /\ current_image.analysis_results.stored
    /\ current_image.analysis_results.identified >= 1
    /\ current_image.analysis_results.identified < current_image.analysis_results.total
    /\ StoredByRefresh = current_image.analysis_results
    /\ StoredByWidget = current_image.analysis_results

\* the scoring parts of the two paths give the same seven sub-scores, and
\* the total is their sum
C28_SameSevenSubScores ==
    LET a == calculate_analysis_results(colony)
        u == update_statistics(colony)
    IN  /\ a.breed_score = u.breed_score /\ a.ci_score = u.ci_score /\ a.hi_score = u.hi_score
        /\ a.breed_match_pct = u.breed_match_pct
        /\ a.score = u.score
        /\ u.score = PenaltyNotId(colony.total, colony.identified) + u.breed_score + u.ci_score
                     + u.hi_score + colony.ci_hyb + colony.dsa_hyb + colony.hi_hyb

\* Wing.analyze has run on a list of 8 landmarks
AnalysedEight == result.op = "analyze" /\ Len(points) = 8

\* C29: after Wing.analyze on 8 landmarks is_identified is true exactly when
\* at least one breed matched, and an identified wing has the three
\* index_valid flags true and no problem points.
C29_IdentifiedIffBreedMatched ==
    AnalysedEight =>
        /\ result.out.is_identified <=> Len(result.out.breeds) > 0
        /\ (result.out.is_identified =>
               /\ \A k \in {"CI", "DsA", "HI"} : result.out.index_valid[k]
               /\ result.out.problem_points = <<>>)

\* C29 witness: an analysed wing of 8 landmarks that matches exactly one breed
C29_Witness ==
    /\ AnalysedEight
    /\ result.out.is_identified
    /\ Len(result.out.breeds) = 1
    /\ result.out.problem_points = <<>>

\* an analysed wing of 8 landmarks that matches no breed and has problem points
C29_UnidentifiedWithProblemPoints ==
    /\ AnalysedEight
    /\ ~result.out.is_identified
    /\ result.out.breeds = <<>>
    /\ result.out.problem_points # <<>>

\* the same for every analysed wing of the image in the editor
C29_EveryWingOfTheImage ==
    \A i \in 1..Len(current_image.wings) :
        LET a == current_image.wings[i].analysis
        IN  (HasAnalysis(current_image.wings[i]) /\ Len(current_image.wings[i].points) = 8) =>
                /\ a.is_identified <=> Len(a.breeds) > 0
                /\ (a.is_identified =>
                       /\ \A k \in DOMAIN a.index_valid : a.index_valid[k]
                       /\ DOMAIN a.index_valid = {"CI", "DsA", "HI"}
                       /\ a.problem_points = <<>>)

\* over the grid of index triples: a triple that matches a breed has the
\* three flags true and no problem points
C29_BreedMatchImpliesAllValid ==
    Len(ident.breeds) > 0 =>
        /\ \A k \in {"CI", "DsA", "HI"} : ident.index_valid[k]
        /\ get_problem_points(items(ident.index_valid)) = <<>>

----------------------------------------------------------------------------
(* Folder specification (ui/main_window.py): a folder of two images        *)
(* without TPS files is open; wings are digitised by clicks in ADD mode    *)
(* while the user switches between the images.                             *)

Paths == <<"a.jpg", "b.jpg">>

\* ImageData(path=img_path) as _load_folder creates it: no wings, size 0
ImageData == [wings |-> <<>>, height |-> 0, analysis_results |-> NoStored]

\* MainWindow._load_folder: the images of the folder, the first one selected
\* and loaded
InitFolder ==
    /\ images = [path \in {Paths[i] : i \in 1..Len(Paths)} |-> ImageData]
    /\ current_path = Paths[1]
    /\ current_image = load_current_image(ImageData)
    /\ adding_points = <<>>
    /\ edit_mode = "VIEW"
    /\ temp_add_items = <<>>
    /\ RestFolderIdle

\* MainWindow._on_file_clicked(item) with _load_current_image: the clicked
\* file becomes current; scene.clear() destroys the items of the scene,
\* those of the pending clicks included; adding_points and temp_add_items
\* are not touched
OnFileClicked ==
    /\ \E path \in DOMAIN images :
          \E kept \in {[images EXCEPT ![current_path] = current_image]} :
              /\ images' = kept
              /\ current_path' = path
              /\ current_image' = load_current_image(kept[path])
    /\ temp_add_items' = [i \in 1..Len(temp_add_items) |-> "deleted"]
    /\ UNCHANGED <<adding_points, edit_mode, restFolder>>

\* MainWindow._cancel_action (Escape)
CancelAction ==
    /\ IF edit_mode = "ADD" /\ adding_points # <<>>
       THEN UNCHANGED edit_mode
       ELSE edit_mode' = "VIEW"
    /\ adding_points' = <<>>
    /\ \E outcome \in RemoveOutcomes(temp_add_items) :
          temp_add_items' = cancel_adding(temp_add_items, outcome)
    /\ UNCHANGED <<current_image, images, current_path, restFolder>>

NextFolder ==
    \/ SetEditMode
    \/ OnSceneClicked
    \/ CancelAction
    \/ OnFileClicked

SpecFolder == InitFolder /\ [][NextFolder]_vars

\* C30: the clicks pending for a new wing are discarded whenever the edit
\* mode leaves ADD or another image becomes the current one.
C30_PendingClicksDiscarded ==
    [][(edit_mode' # "ADD" \/ current_path' # current_path) => adding_points' = <<>>]_vars

\* whenever the edit mode is not ADD after a step, no click is pending
C30_DiscardedOutsideAdd ==
    [][edit_mode' # "ADD" => adding_points' = <<>>]_vars

\* the pending list never holds 8 points after a handler has returned
C30_NeverEightPending == Len(adding_points) < NUM_POINTS

\* a wing is appended to the current image only by a click that finds 7
\* pending clicks, and it consists of them and the click
C30_WingIsPendingClicksAndTheClick ==
    [][(current_path' = current_path /\ Len(current_image'.wings) > Len(current_image.wings)) =>
          /\ Len(adding_points) = NUM_POINTS - 1
          /\ adding_points' = <<>>
          /\ \E i \in 1..Len(current_image'.wings) :
                /\ Len(current_image'.wings[i].points) = NUM_POINTS
                /\ \A k \in 1..(NUM_POINTS - 1) : current_image'.wings[i].points[k] = adding_points[k]]_vars

\* a wing is appended only when the items of all pending clicks are still in
\* the scene, that is, when no image was loaded since the first of them
C30_WingFromClicksOnThisImage ==
    [][(current_path' = current_path /\ Len(current_image'.wings) > Len(current_image.wings)) =>
          \A i \in 1..Len(temp_add_items) : temp_add_items[i] = "live"]_vars

\* in the editor, where samples with a positive breed probability occur:
\* results that update_statistics would store again for the wings at hand
\* name the dominant breed and carry the score computed with it
C27_FreshResultsInEditor ==
    (/\ Len(current_image.wings) > 0
     /\ current_image.analysis_results.stored
     /\ StoredByWidget = current_image.analysis_results
     /\ current_image.wings = AnalysisWidget_update_statistics(current_image).wings)
        => C27_DominantBreedAndDash

====
